---- MODULE Spec2Model ----
(***************************************************************************)
(* A model of the OCT dashboard (src/oct_analysis.py): the analyse-image   *)
(* callback and the pipeline behind it -- image encoder, analysis          *)
(* requestor (fence stripping + JSON parse) and response normaliser.       *)
(*                                                                         *)
(* Python strings are sequences of characters.  A character is a one-      *)
(* character TLA+ string; the two accented letters that the vocabulary     *)
(* uses are written "e'" and "E'" (e acute) and "e!" and "E!" (e grave).   *)
(* JSON values are tagged records.                                         *)
(***************************************************************************)
EXTENDS Integers, Sequences, FiniteSets, TLC

(***************************************************************************)
(* Characters and Python's str methods                                     *)
(***************************************************************************)
Uppers == <<"A","B","C","D","E","F","G","H","I","J","K","L","M","N","O","P","Q","R","S","T","U","V","W","X","Y","Z","E'","E!">>
Lowers == <<"a","b","c","d","e","f","g","h","i","j","k","l","m","n","o","p","q","r","s","t","u","v","w","x","y","z","e'","e!">>

LowerChar(c) ==
    IF \E i \in DOMAIN Uppers : Uppers[i] = c
    THEN Lowers[CHOOSE i \in DOMAIN Uppers : Uppers[i] = c]
    ELSE c

UpperChar(c) ==
    IF \E i \in DOMAIN Lowers : Lowers[i] = c
    THEN Uppers[CHOOSE i \in DOMAIN Lowers : Lowers[i] = c]
    ELSE c

\* str.lower()
Lower(s) == [i \in 1..Len(s) |-> LowerChar(s[i])]

\* str.capitalize(): first character upper-cased, the rest lower-cased
Capitalize(s) == [i \in 1..Len(s) |-> IF i = 1 THEN UpperChar(s[i]) ELSE LowerChar(s[i])]

\* the first index at which sub occurs in s, 0 when it does not (str.find + 1)
Find(s, sub) ==
    IF sub = <<>> THEN 1
    ELSE LET hits == {i \in 1..(Len(s) - Len(sub) + 1) :
                         s[i] = sub[1] /\ SubSeq(s, i, i + Len(sub) - 1) = sub}
         IN  IF hits = {} THEN 0 ELSE CHOOSE i \in hits : \A j \in hits : i <= j

\* sub in s, for two strings
Contains(s, sub) == Find(s, sub) # 0

\* str.split(sep): the parts between the non-overlapping occurrences of sep
RECURSIVE Split(_, _)
Split(s, sep) ==
    LET i == Find(s, sep)
    IN  IF i = 0 THEN <<s>>
        ELSE <<SubSeq(s, 1, i - 1)>> \o Split(SubSeq(s, i + Len(sep), Len(s)), sep)

Whitespace == {" ", "\n", "\t", "\r"}

\* the last index <= i that holds no whitespace (0 when none does)
RECURSIVE SkipWsBack(_, _)
SkipWsBack(s, i) ==
    IF i < 1 THEN 0
    ELSE IF s[i] \in Whitespace THEN SkipWsBack(s, i - 1)
    ELSE i

\* the first index >= i that holds no whitespace (Len(s) + 1 at the end)
RECURSIVE SkipWs(_, _)
SkipWs(s, i) ==
    IF i > Len(s) THEN Len(s) + 1
    ELSE IF s[i] \in Whitespace THEN SkipWs(s, i + 1)
    ELSE i

\* str.strip()
Strip(s) == SubSeq(s, SkipWs(s, 1), SkipWsBack(s, Len(s)))

(***************************************************************************)
(* JSON values as Python holds them after json.loads                       *)
(***************************************************************************)
JNull == [t |-> "null"]
JBool(b) == [t |-> "bool", v |-> b]
JNum(n) == [t |-> "num", v |-> n]
JStr(s) == [t |-> "str", v |-> s]
JArr(a) == [t |-> "arr", v |-> a]
\* a dict: a function from keys (strings) to values
JObj(f) == [t |-> "obj", v |-> f]
EmptyDict == [k \in {} |-> JNull]

\* the outcome of a Python call: a returned value or a raised exception
Ok(v) == [t |-> "ok", v |-> v]
Raise(e) == [t |-> "raise", v |-> e]
Raised(r) == r.t = "raise"

(***************************************************************************)
(* json.loads: a recursive-descent parser over the characters of the text. *)
(* A parse step returns [ok, val, pos]: pos is the index after the value.  *)
(* Texts hold no backslash escapes and no exponent or fraction numbers.    *)
(***************************************************************************)
Digits == <<"0","1","2","3","4","5","6","7","8","9">>
IsDigit(c) == \E i \in DOMAIN Digits : Digits[i] = c
DigitValue(c) == (CHOOSE i \in DOMAIN Digits : Digits[i] = c) - 1

ParseFail == [ok |-> FALSE, val |-> JNull, pos |-> 0]
Parsed(v, p) == [ok |-> TRUE, val |-> v, pos |-> p]

\* the first index >= i that holds the character c (Len(s) + 1 when none does)
RECURSIVE ScanTo(_, _, _)
ScanTo(s, i, c) ==
    IF i > Len(s) THEN Len(s) + 1
    ELSE IF s[i] = c THEN i
    ELSE ScanTo(s, i + 1, c)

\* s holds lit at index i
At(s, i, lit) == i + Len(lit) - 1 <= Len(s) /\ SubSeq(s, i, i + Len(lit) - 1) = lit

\* a string literal opening at s[i] = quote: up to the next quote, no control character
ParseString(s, i) ==
    LET j == ScanTo(s, i + 1, "\"")
    IN  IF j > Len(s) THEN ParseFail
        ELSE LET body == SubSeq(s, i + 1, j - 1)
             IN  IF \E k \in 1..Len(body) : body[k] \in {"\n", "\t", "\r", "\\"}
                 THEN ParseFail
                 ELSE Parsed(JStr(body), j + 1)

RECURSIVE NumberValue(_)
NumberValue(ds) ==
    IF ds = <<>> THEN 0
    ELSE 10 * NumberValue(SubSeq(ds, 1, Len(ds) - 1)) + DigitValue(ds[Len(ds)])

\* the first index >= i that holds no digit
RECURSIVE SkipDigits(_, _)
SkipDigits(s, i) ==
    IF i > Len(s) THEN Len(s) + 1
    ELSE IF IsDigit(s[i]) THEN SkipDigits(s, i + 1)
    ELSE i

\* an integer literal at s[i]: digits; after a leading zero the literal ends
ParseNumber(s, i) ==
    LET j == SkipDigits(s, i)
        ds == SubSeq(s, i, j - 1)
    IN  IF Len(ds) > 1 /\ ds[1] = "0" THEN Parsed(JNum(0), i + 1)
        ELSE Parsed(JNum(NumberValue(ds)), j)

RECURSIVE ParseValue(_, _), ParseMembers(_, _, _), ParseElements(_, _, _)

\* the members of an object after "{" or ",": i is at the next key; acc is the dict so far
ParseMembers(s, i, acc) ==
    IF i > Len(s) \/ s[i] # "\"" THEN ParseFail
    ELSE LET k == ParseString(s, i)
         IN  IF ~k.ok THEN ParseFail
             ELSE LET c == SkipWs(s, k.pos)
                  IN  IF c > Len(s) \/ s[c] # ":" THEN ParseFail
                      ELSE LET v == ParseValue(s, SkipWs(s, c + 1))
                           IN  IF ~v.ok THEN ParseFail
                               ELSE LET e == SkipWs(s, v.pos)
                                        \* a repeated key keeps its last value
                                        acc2 == [x \in (DOMAIN acc) \cup {k.val.v} |->
                                                    IF x = k.val.v THEN v.val ELSE acc[x]]
                                    IN  IF e > Len(s) THEN ParseFail
                                        ELSE IF s[e] = "}" THEN Parsed(JObj(acc2), e + 1)
                                        ELSE IF s[e] = "," THEN ParseMembers(s, SkipWs(s, e + 1), acc2)
                                        ELSE ParseFail

\* the elements of an array after "[" or ",": i is at the next value
ParseElements(s, i, acc) ==
    LET v == ParseValue(s, i)
    IN  IF ~v.ok THEN ParseFail
        ELSE LET e == SkipWs(s, v.pos)
                 acc2 == Append(acc, v.val)
             IN  IF e > Len(s) THEN ParseFail
                 ELSE IF s[e] = "]" THEN Parsed(JArr(acc2), e + 1)
                 ELSE IF s[e] = "," THEN ParseElements(s, SkipWs(s, e + 1), acc2)
                 ELSE ParseFail

\* one JSON value at s[i] (i is not at whitespace)
ParseValue(s, i) ==
    IF i > Len(s) THEN ParseFail
    ELSE IF s[i] = "{" THEN
        LET j == SkipWs(s, i + 1)
        IN  IF j <= Len(s) /\ s[j] = "}" THEN Parsed(JObj(EmptyDict), j + 1)
            ELSE ParseMembers(s, j, EmptyDict)
    ELSE IF s[i] = "[" THEN
        LET j == SkipWs(s, i + 1)
        IN  IF j <= Len(s) /\ s[j] = "]" THEN Parsed(JArr(<<>>), j + 1)
            ELSE ParseElements(s, j, <<>>)
    ELSE IF s[i] = "\"" THEN ParseString(s, i)
    ELSE IF At(s, i, <<"n","u","l","l">>) THEN Parsed(JNull, i + 4)
    ELSE IF At(s, i, <<"t","r","u","e">>) THEN Parsed(JBool(TRUE), i + 4)
    ELSE IF At(s, i, <<"f","a","l","s","e">>) THEN Parsed(JBool(FALSE), i + 5)
    ELSE IF IsDigit(s[i]) THEN ParseNumber(s, i)
    ELSE ParseFail

\* json.loads(text): Ok(value), or JSONDecodeError (also on trailing data)
JsonLoads(text) ==
    LET r == ParseValue(text, SkipWs(text, 1))
    IN  IF r.ok /\ SkipWs(text, r.pos) = Len(text) + 1 THEN Ok(r.val)
        ELSE Raise("JSONDecodeError")

(***************************************************************************)
(* The string literals of src/oct_analysis.py.  The backquote character is *)
(* written "bq".                                                           *)
(***************************************************************************)
\* the keys of the analysis dicts
K ==
    [error |-> <<"e","r","r","o","r">>,
     left_eye |-> <<"l","e","f","t","_","e","y","e">>,
     right_eye |-> <<"r","i","g","h","t","_","e","y","e">>,
     dril |-> <<"d","r","i","l">>,
     status |-> <<"s","t","a","t","u","s">>,
     extent |-> <<"e","x","t","e","n","t">>,
     oedeme |-> <<"o","e","d","e","m","e">>,
     nb_logette |-> <<"n","b","_","l","o","g","e","t","t","e">>,
     taille |-> <<"t","a","i","l","l","e">>,
     localisation |-> <<"l","o","c","a","l","i","s","a","t","i","o","n">>,
     mle |-> <<"m","l","e">>,
     ze |-> <<"z","e">>,
     points_hyperreflectifs |-> <<"p","o","i","n","t","s","_","h","y","p","e","r","r","e","f","l","e","c","t","i","f","s">>,
     nombre |-> <<"n","o","m","b","r","e">>,
     epaisseur_retinienne |-> <<"e","p","a","i","s","s","e","u","r","_","r","e","t","i","n","i","e","n","n","e">>,
     central |-> <<"c","e","n","t","r","a","l">>,
     superieur |-> <<"s","u","p","e","r","i","e","u","r">>,
     inferieur |-> <<"i","n","f","e","r","i","e","u","r">>,
     nasal |-> <<"n","a","s","a","l">>,
     temporal |-> <<"t","e","m","p","o","r","a","l">>,
     briding |-> <<"b","r","i","d","i","n","g">>,
     decollement |-> <<"d","e","c","o","l","l","e","m","e","n","t">>]
\* the string literals of the normaliser and of the callbacks
S ==
    [Presente |-> <<"P","r","e'","s","e","n","t","e">>,
     Absente |-> <<"A","b","s","e","n","t","e">>,
     Present |-> <<"P","r","e'","s","e","n","t">>,
     Absent |-> <<"A","b","s","e","n","t">>,
     Presents |-> <<"P","r","e'","s","e","n","t","s">>,
     Absents |-> <<"A","b","s","e","n","t","s">>,
     Continue |-> <<"C","o","n","t","i","n","u","e">>,
     PartiellementInterrompue |-> <<"P","a","r","t","i","e","l","l","e","m","e","n","t"," ","i","n","t","e","r","r","o","m","p","u","e">>,
     CompletementInterrompue |-> <<"C","o","m","p","l","e!","t","e","m","e","n","t"," ","i","n","t","e","r","r","o","m","p","u","e">>,
     present |-> <<"p","r","e","s","e","n","t">>,
     continu |-> <<"c","o","n","t","i","n","u">>,
     partiel |-> <<"p","a","r","t","i","e","l">>,
     complet |-> <<"c","o","m","p","l","e","t">>,
     small |-> <<"s","m","a","l","l">>,
     medium |-> <<"m","e","d","i","u","m">>,
     large |-> <<"l","a","r","g","e">>,
     petit |-> <<"p","e","t","i","t">>,
     grand |-> <<"g","r","a","n","d">>,
     lt100 |-> <<"<","1","0","0">>,
     range100_200 |-> <<"1","0","0","-","2","0","0">>,
     gt200 |-> <<">","2","0","0">>,
     petite |-> <<"p","e","t","i","t","e">>,
     grande |-> <<"g","r","a","n","d","e">>,
     volumineuse |-> <<"v","o","l","u","m","i","n","e","u","s","e">>,
     Fence |-> <<"bq","bq","bq">>,
     FenceJson |-> <<"bq","bq","bq","j","s","o","n">>,
     Comma |-> <<",">>,
     Empty |-> <<>>]

(***************************************************************************)
(* Python's `in`, x[k] and x[k] = v on a value that json.loads can return  *)
(***************************************************************************)
\* k in c (k a string): dict key, substring of a str, element of a list
PyContains(c, k) ==
    IF c.t = "obj" THEN Ok(k \in DOMAIN c.v)
    ELSE IF c.t = "str" THEN Ok(Contains(c.v, k))
    ELSE IF c.t = "arr" THEN Ok(\E i \in 1..Len(c.v) : c.v[i] = JStr(k))
    ELSE Raise("TypeError")

\* c[k] (k a string)
PyGetItem(c, k) ==
    IF c.t = "obj" THEN (IF k \in DOMAIN c.v THEN Ok(c.v[k]) ELSE Raise("KeyError"))
    ELSE Raise("TypeError")

\* the dict d with d[k] = v
DictSet(d, k, v) == [x \in (DOMAIN d) \cup {k} |-> IF x = k THEN v ELSE d[x]]

\* c[k] = v (k a string): the container after the assignment
PySetItem(c, k, v) ==
    IF c.t = "obj" THEN Ok(JObj(DictSet(c.v, k, v)))
    ELSE Raise("TypeError")

(***************************************************************************)
(* generate_default_analysis                                               *)
(***************************************************************************)
\* the default eye with a dril reported present
DefaultEye_dril_present ==
    JObj(K.dril :> JObj(K.status :> JStr(S.Presente) @@ K.extent :> JStr(S.Empty))
      @@ K.oedeme :> JObj(K.status :> JStr(S.Absent) @@ K.nb_logette :> JStr(S.Empty)
                          @@ K.taille :> JStr(S.Empty) @@ K.localisation :> JStr(S.Empty))
      @@ K.mle :> JStr(S.Continue)
      @@ K.ze :> JStr(S.Continue)
      @@ K.points_hyperreflectifs :> JObj(K.status :> JStr(S.Absents) @@ K.nombre :> JStr(S.Empty)
                                          @@ K.localisation :> JStr(S.Empty))
      @@ K.epaisseur_retinienne :> JObj(K.central :> JStr(S.Empty) @@ K.superieur :> JStr(S.Empty)
                                        @@ K.inferieur :> JStr(S.Empty) @@ K.nasal :> JStr(S.Empty)
                                        @@ K.temporal :> JStr(S.Empty))
      @@ K.briding :> JStr(S.Absent)
      @@ K.decollement :> JStr(S.Absent))

DefaultEye ==
    JObj(K.dril :> JObj(K.status :> JStr(S.Absente) @@ K.extent :> JStr(S.Empty))
      @@ K.oedeme :> JObj(K.status :> JStr(S.Absent) @@ K.nb_logette :> JStr(S.Empty)
                          @@ K.taille :> JStr(S.Empty) @@ K.localisation :> JStr(S.Empty))
      @@ K.mle :> JStr(S.Continue)
      @@ K.ze :> JStr(S.Continue)
      @@ K.points_hyperreflectifs :> JObj(K.status :> JStr(S.Absents) @@ K.nombre :> JStr(S.Empty)
                                          @@ K.localisation :> JStr(S.Empty))
      @@ K.epaisseur_retinienne :> JObj(K.central :> JStr(S.Empty) @@ K.superieur :> JStr(S.Empty)
                                        @@ K.inferieur :> JStr(S.Empty) @@ K.nasal :> JStr(S.Empty)
                                        @@ K.temporal :> JStr(S.Empty))
      @@ K.briding :> JStr(S.Absent)
      @@ K.decollement :> JStr(S.Absent))

\* the keys of the default eye in the order the dict literal gives them
DefaultEyeKeys == <<K.dril, K.oedeme, K.mle, K.ze, K.points_hyperreflectifs,
                    K.epaisseur_retinienne, K.briding, K.decollement>>

generate_default_analysis == JObj(K.left_eye :> DefaultEye @@ K.right_eye :> DefaultEye)

(***************************************************************************)
(* analyze_with_gpt.  client_ok: the module's client is not None.          *)
(* completion: what client.chat.completions.create(...) does: Raise(e),    *)
(* or Ok(content), content the first choice's message content (a str, or   *)
(* None).                                                                  *)
(***************************************************************************)
\* ExtractJson that takes the first fenced block whatever its tag
ExtractJson_any_fence_first(response_text) ==
    IF Contains(response_text, S.Fence)
    THEN Strip(Split(Split(response_text, S.Fence)[2], S.Fence)[1])
    ELSE response_text

\* the text handed to json.loads: the content of the first fenced block, if any
ExtractJson(response_text) ==
    IF Contains(response_text, S.FenceJson)
    THEN Strip(Split(Split(response_text, S.FenceJson)[2], S.Fence)[1])
    ELSE IF Contains(response_text, S.Fence)
    THEN Strip(Split(Split(response_text, S.Fence)[2], S.Fence)[1])
    ELSE response_text

\* try: json.loads ... except json.JSONDecodeError: {"error": str(e)}
ParseResponse(response_text) ==
    LET parsed == JsonLoads(response_text)
    IN  IF Raised(parsed) THEN JObj(K.error :> JStr(<<"J","S","O","N">>))
        ELSE parsed.v

\* analyze_with_gpt with the outer handler answering as the inner one does: {"error": str(e)}
analyze_with_gpt_error_dict(client_ok, completion) ==
    IF ~client_ok THEN generate_default_analysis
    ELSE IF Raised(completion) THEN JObj(K.error :> JStr(<<"A","P","I">>))
    ELSE IF completion.v.t # "str" THEN generate_default_analysis
    ELSE ParseResponse(ExtractJson(Strip(completion.v.v)))

analyze_with_gpt(client_ok, completion) ==
    IF ~client_ok THEN generate_default_analysis
    ELSE IF Raised(completion) THEN generate_default_analysis
    \* None.strip() raises AttributeError inside the outer try
    ELSE IF completion.v.t # "str" THEN generate_default_analysis
    ELSE ParseResponse(ExtractJson(Strip(completion.v.v)))

(***************************************************************************)
(* process_gpt_response.  The response is mutated in place and returned;   *)
(* here each step returns Ok(the object after the step) or Raise(e).       *)
(***************************************************************************)
\* the table with "small" mapped to "petit", itself a key of the table
TailleMapping_chained ==
    S.small :> S.petit @@ S.medium :> S.grande @@ S.large :> S.volumineuse
    @@ S.petit :> S.petite @@ S.grand :> S.grande @@ S.lt100 :> S.petite
    @@ S.range100_200 :> S.grande @@ S.gt200 :> S.volumineuse

TailleMapping ==
    S.small :> S.petite @@ S.medium :> S.grande @@ S.large :> S.volumineuse
    @@ S.petit :> S.petite @@ S.grand :> S.grande @@ S.lt100 :> S.petite
    @@ S.range100_200 :> S.grande @@ S.gt200 :> S.volumineuse

\* StandardizeStatus with the substring test made on the capitalized status, not on status.lower()
StandardizeStatus_no_lower(status, accepted, yes, no) ==
    LET cap == Capitalize(status)
    IN  IF cap \in accepted THEN cap
        ELSE IF Contains(cap, S.present) THEN yes ELSE no

\* status = status.capitalize(); if status not in accepted: yes if "present" in status.lower() else no
StandardizeStatus(status, accepted, yes, no) ==
    LET cap == Capitalize(status)
    IN  IF cap \in accepted THEN cap
        ELSE IF Contains(Lower(cap), S.present) THEN yes ELSE no

\* the capitalize-then-test block on record[key]["status"], shared by dril, oedeme and points
StandardizeRecord(eye_data, key, accepted, yes, no) ==
    LET has == PyContains(eye_data, key)
    IN  IF Raised(has) THEN has
        ELSE IF ~has.v THEN Ok(eye_data)
        ELSE LET rec == PyGetItem(eye_data, key)
             IN  IF Raised(rec) THEN rec
                 ELSE IF rec.v.t # "obj" THEN Ok(eye_data)
                 ELSE LET st == PyGetItem(rec.v, K.status)
                      IN  IF Raised(st) THEN st
                          ELSE IF st.v.t # "str" THEN Raise("AttributeError")
                          ELSE PySetItem(eye_data, key,
                                   JObj(DictSet(rec.v.v, K.status,
                                       JStr(StandardizeStatus(st.v.v, accepted, yes, no)))))

\* StandardizeDril with the accepted values spelled without the accent
StandardizeDril_unaccented(eye_data) ==
    StandardizeRecord(eye_data, K.dril, {<<"P","r","e","s","e","n","t","e">>, S.Absente},
                      S.Presente, S.Absente)

StandardizeDril(eye_data) ==
    StandardizeRecord(eye_data, K.dril, {S.Presente, S.Absente}, S.Presente, S.Absente)

\* StandardizeTaille with the lookup falling back to the value as it was given
StandardizeTaille_keeps_case(taille) ==
    LET low == Lower(taille)
    IN  IF low \in DOMAIN TailleMapping THEN TailleMapping[low] ELSE taille

\* taille = oedeme["taille"].lower(); oedeme["taille"] = taille_mapping.get(taille, taille)
StandardizeTaille(taille) ==
    LET low == Lower(taille)
    IN  IF low \in DOMAIN TailleMapping THEN TailleMapping[low] ELSE low

StandardizeOedeme(eye_data) ==
    LET r == StandardizeRecord(eye_data, K.oedeme, {S.Present, S.Absent}, S.Present, S.Absent)
    IN  IF Raised(r) THEN r
        ELSE IF r.v.t # "obj" \/ K.oedeme \notin DOMAIN r.v.v THEN r
        ELSE LET oedeme == r.v.v[K.oedeme]
             IN  IF oedeme.t # "obj" \/ K.taille \notin DOMAIN oedeme.v THEN r
                 ELSE IF oedeme.v[K.taille].t # "str" THEN Raise("AttributeError")
                 ELSE PySetItem(r.v, K.oedeme,
                          JObj(DictSet(oedeme.v, K.taille,
                              JStr(StandardizeTaille(oedeme.v[K.taille].v)))))

\* the value of mle or ze
StandardizeMembraneValue(value) ==
    IF Contains(Lower(value), S.continu) THEN S.Continue
    ELSE IF Contains(Lower(value), S.partiel) THEN S.PartiellementInterrompue
    ELSE IF Contains(Lower(value), S.complet) THEN S.CompletementInterrompue
    ELSE value

StandardizeMembrane(eye_data, field) ==
    LET has == PyContains(eye_data, field)
    IN  IF Raised(has) THEN has
        ELSE IF ~has.v THEN Ok(eye_data)
        ELSE LET value == PyGetItem(eye_data, field)
             IN  IF Raised(value) THEN value
                 ELSE IF value.v.t # "str" THEN Raise("AttributeError")
                 ELSE PySetItem(eye_data, field, JStr(StandardizeMembraneValue(value.v.v)))

\* StandardizePoints with the accepted values of dril
StandardizePoints_as_dril(eye_data) ==
    StandardizeRecord(eye_data, K.points_hyperreflectifs, {S.Presente, S.Absente},
                      S.Presente, S.Absente)

StandardizePoints(eye_data) ==
    StandardizeRecord(eye_data, K.points_hyperreflectifs, {S.Presents, S.Absents},
                      S.Presents, S.Absents)

\* FormatThickness with the conversion of a string left out
FormatThickness_keeps_string(eye_data) ==
    LET has == PyContains(eye_data, K.epaisseur_retinienne)
    IN  IF Raised(has) THEN has ELSE Ok(eye_data)

\* a thickness given as one string becomes the central sector
FormatThickness(eye_data) ==
    LET has == PyContains(eye_data, K.epaisseur_retinienne)
    IN  IF Raised(has) THEN has
        ELSE IF ~has.v THEN Ok(eye_data)
        ELSE LET value == PyGetItem(eye_data, K.epaisseur_retinienne)
             IN  IF Raised(value) THEN value
                 ELSE IF value.v.t # "str" THEN Ok(eye_data)
                 ELSE PySetItem(eye_data, K.epaisseur_retinienne,
                          JObj(K.central :> value.v @@ K.superieur :> JStr(S.Empty)
                               @@ K.inferieur :> JStr(S.Empty) @@ K.nasal :> JStr(S.Empty)
                               @@ K.temporal :> JStr(S.Empty)))

\* for key, default_value in default_structure[eye].items(): if key not in eye_data: ...
RECURSIVE AddMissingFrom(_, _)
AddMissingFrom(eye_data, i) ==
    IF i > Len(DefaultEyeKeys) THEN Ok(eye_data)
    ELSE LET key == DefaultEyeKeys[i]
             has == PyContains(eye_data, key)
         IN  IF Raised(has) THEN has
             ELSE IF has.v THEN AddMissingFrom(eye_data, i + 1)
             ELSE LET set == PySetItem(eye_data, key, DefaultEye.v[key])
                  IN  IF Raised(set) THEN set ELSE AddMissingFrom(set.v, i + 1)

AddMissingFields(eye_data) == AddMissingFrom(eye_data, 1)

EyeBlocks == <<"dril", "oedeme", "mle", "ze", "points", "thickness", "fill">>

\* the blocks of the loop body for an eye that the response holds, in the order of the code
EyeBlock(eye_data, i) ==
    IF i = 1 THEN StandardizeDril(eye_data)
    ELSE IF i = 2 THEN StandardizeOedeme(eye_data)
    ELSE IF i = 3 THEN StandardizeMembrane(eye_data, K.mle)
    ELSE IF i = 4 THEN StandardizeMembrane(eye_data, K.ze)
    ELSE IF i = 5 THEN StandardizePoints(eye_data)
    ELSE IF i = 6 THEN FormatThickness(eye_data)
    ELSE AddMissingFields(eye_data)

RECURSIVE ProcessEyeFrom(_, _)
\* the blocks from the i-th on; an exception of one block ends the run
ProcessEyeFrom(r, i) ==
    IF Raised(r) \/ i > Len(EyeBlocks) THEN r
    ELSE ProcessEyeFrom(EyeBlock(r.v, i), i + 1)

\* the body of the loop for an eye that the response holds
ProcessEye(eye_data) == ProcessEyeFrom(Ok(eye_data), 1)

\* response[eye] = default_structure[eye] for an eye the response does not hold
SubstituteDefaultEye(response, eye) == PySetItem(response, eye, DefaultEye)

\* the processed eye is stored back under its key, unless processing it raised
StoreEye(response, eye, done) ==
    IF Raised(done) THEN done ELSE PySetItem(response, eye, done.v)

\* one turn of: for eye in ["left_eye", "right_eye"]
ProcessEyeOf(response, eye) ==
    LET has == PyContains(response, eye)
    IN  IF Raised(has) THEN has
        ELSE IF ~has.v THEN SubstituteDefaultEye(response, eye)
        ELSE LET eye_data == PyGetItem(response, eye)
             IN  IF Raised(eye_data) THEN eye_data
                 ELSE StoreEye(response, eye, ProcessEye(eye_data.v))

EyeOrder == <<K.left_eye, K.right_eye>>

RECURSIVE ProcessEyesFrom(_, _)
\* the turns of the loop from the i-th on; an exception in one turn ends the loop
ProcessEyesFrom(r, i) ==
    IF Raised(r) \/ i > Len(EyeOrder) THEN r
    ELSE ProcessEyesFrom(ProcessEyeOf(r.v, EyeOrder[i]), i + 1)

\* for eye in ["left_eye", "right_eye"]
ProcessEyes(response) == ProcessEyesFrom(Ok(response), 1)

\* if "error" in response: print(response['error']); return default_structure
HasError(response) ==
    LET has == PyContains(response, K.error)
    IN  IF Raised(has) THEN has
        ELSE IF ~has.v THEN Ok(FALSE)
        ELSE LET shown == PyGetItem(response, K.error)
             IN  IF Raised(shown) THEN shown ELSE Ok(TRUE)

\* process_gpt_response without the return on an "error" key
process_gpt_response_no_return(response) ==
    LET err == HasError(response)
    IN  IF Raised(err) THEN err
        ELSE ProcessEyes(response)

process_gpt_response(response) ==
    LET err == HasError(response)
    IN  IF Raised(err) THEN err
        ELSE IF err.v THEN Ok(generate_default_analysis)
        ELSE ProcessEyes(response)

(***************************************************************************)
(* process_gpt_response assigns into the dict it was given (response[eye]  *)
(* = ..., eye_data[key] = ...) and returns that same dict.  The dict the   *)
(* caller passed, as the call left it:                                     *)
(***************************************************************************)
\* what a block that raised had assigned before: only the oedeme block assigns (the
\* status) before it can raise (on the taille)
AssignedBeforeRaise(eye_data, i) ==
    IF i = 2 /\ ~Raised(StandardizeRecord(eye_data, K.oedeme, {S.Present, S.Absent}, S.Present, S.Absent))
    THEN StandardizeRecord(eye_data, K.oedeme, {S.Present, S.Absent}, S.Present, S.Absent).v
    ELSE eye_data

RECURSIVE EyeAfterFrom(_, _), EyeAfterBlock(_, _, _)
\* eye_data after the blocks from the i-th on, run until one raises
EyeAfterFrom(eye_data, i) ==
    IF i > Len(EyeBlocks) THEN eye_data
    ELSE EyeAfterBlock(eye_data, i, EyeBlock(eye_data, i))

EyeAfterBlock(eye_data, i, r) ==
    IF Raised(r) THEN AssignedBeforeRaise(eye_data, i) ELSE EyeAfterFrom(r.v, i + 1)

\* the response after a turn of the loop that raised: the eye it holds was changed in place
ResponseAfterRaise(response, eye) ==
    IF response.t = "obj" /\ eye \in DOMAIN response.v
    THEN JObj(DictSet(response.v, eye, EyeAfterFrom(response.v[eye], 1)))
    ELSE response

RECURSIVE ResponseAfterFrom(_, _), ResponseAfterTurn(_, _, _)
\* the response after the turns of the loop from the i-th on, run until one raises
ResponseAfterFrom(response, i) ==
    IF i > Len(EyeOrder) THEN response
    ELSE ResponseAfterTurn(response, i, ProcessEyeOf(response, EyeOrder[i]))

ResponseAfterTurn(response, i, r) ==
    IF Raised(r) THEN ResponseAfterRaise(response, EyeOrder[i]) ELSE ResponseAfterFrom(r.v, i + 1)

\* the caller's dict after process_gpt_response(response): untouched when the call
\* ends before the loop, else what the loop made of it
ResponseAfter(response) ==
    IF HasError(response) # Ok(FALSE) THEN response ELSE ResponseAfterFrom(response, 1)

(***************************************************************************)
(* encode_image_contents and the analyze_image callback                    *)
(***************************************************************************)
\* content_type, content_string = contents.split(','): exactly two parts, or ValueError
encode_image_contents(contents) ==
    LET parts == Split(contents, S.Comma)
    IN  IF Len(parts) = 2 THEN Ok(parts[2]) ELSE Raise("ValueError")

\* Python's truth value of a value
Truthy(x) ==
    IF x.t = "null" THEN FALSE
    ELSE IF x.t = "bool" THEN x.v
    ELSE IF x.t = "num" THEN x.v # 0
    ELSE IF x.t \in {"str", "arr"} THEN Len(x.v) > 0
    ELSE DOMAIN x.v # {}

RECURSIVE Decimal(_)
\* str(n) for an int n >= 0
Decimal(n) == IF n < 10 THEN <<Digits[n + 1]>> ELSE Decimal(n \div 10) \o <<Digits[(n % 10) + 1]>>

\* f"{value}" for a truthy value; the repr of a list or dict is one opaque character
Format(value) ==
    IF value.t = "str" THEN value.v
    ELSE IF value.t = "num" THEN Decimal(value.v)
    ELSE IF value.t = "bool" THEN <<"T","r","u","e">>
    ELSE <<"repr">>

\* the labels of the thickness sectors
L ==
    [Central |-> <<"C","e","n","t","r","a","l">>,
     Superieur |-> <<"S","u","p","e'","r","i","e","u","r">>,
     Inferieur |-> <<"I","n","f","e'","r","i","e","u","r">>,
     Nasal |-> <<"N","a","s","a","l">>,
     Temporal |-> <<"T","e","m","p","o","r","a","l">>]

SectorKeys == <<K.central, K.superieur, K.inferieur, K.nasal, K.temporal>>
SectorLabels == <<L.Central, L.Superieur, L.Inferieur, L.Nasal, L.Temporal>>

\* ", ".join(f"{label}: {value}um" for the sectors whose value is truthy)
RECURSIVE EdtrsParts(_, _)
EdtrsParts(retinal_thickness, i) ==
    IF i > Len(SectorKeys) THEN <<>>
    ELSE LET value == IF SectorKeys[i] \in DOMAIN retinal_thickness
                      THEN retinal_thickness[SectorKeys[i]] ELSE JStr(S.Empty)
             rest == EdtrsParts(retinal_thickness, i + 1)
         IN  IF Truthy(value)
             THEN <<SectorLabels[i] \o <<":", " ">> \o Format(value) \o <<"mu", "m">>>> \o rest
             ELSE rest

RECURSIVE Join(_, _)
Join(parts, sep) ==
    IF parts = <<>> THEN <<>>
    ELSE IF Len(parts) = 1 THEN parts[1]
    ELSE parts[1] \o sep \o Join(Tail(parts), sep)

\* the EDTRS text of one eye (positions 20-21)
EdtrsValue(eye_data) ==
    LET retinal_thickness == PyGetItem(eye_data, K.epaisseur_retinienne)
    IN  IF Raised(retinal_thickness) THEN retinal_thickness
        ELSE IF retinal_thickness.v.t = "obj"
        THEN Ok(JStr(Join(EdtrsParts(retinal_thickness.v.v, 1), <<",", " ">>)))
        ELSE Ok(JStr(S.Empty))

\* eye_data[record]['status']
StatusOf(eye_data, record) ==
    LET rec == PyGetItem(eye_data, record)
    IN  IF Raised(rec) THEN rec
        ELSE PyGetItem(rec.v, K.status)

\* the seven main values of one eye, in the order of the list literal
MainValues(eye_data, briding, decollement) ==
    LET dril == StatusOf(eye_data, K.dril)
        oedeme == StatusOf(eye_data, K.oedeme)
        mle == PyGetItem(eye_data, K.mle)
        ze == PyGetItem(eye_data, K.ze)
        points == StatusOf(eye_data, K.points_hyperreflectifs)
    IN  IF Raised(dril) THEN dril
        ELSE IF Raised(oedeme) THEN oedeme
        ELSE IF Raised(mle) THEN mle
        ELSE IF Raised(ze) THEN ze
        ELSE IF Raised(points) THEN points
        ELSE Ok(<<dril.v, oedeme.v, briding, mle.v, ze.v, points.v, decollement>>)

\* OedemeDetail without the test of the status
OedemeDetail_ungated(eye_data, field) ==
    LET value == PyGetItem(eye_data.v[K.oedeme], field)
    IN  IF Raised(value) THEN value
        ELSE IF field # K.taille THEN value
        ELSE IF value.v.t # "str" THEN Raise("AttributeError")
        ELSE Ok(JStr(Lower(value.v.v)))

\* oedeme_data[field] if oedeme_data['status'] == 'Présent' else ''  (taille is lower-cased)
OedemeDetail(eye_data, field) ==
    LET oedeme_data == eye_data.v[K.oedeme]
    IN  IF oedeme_data.v[K.status] # JStr(S.Present) THEN Ok(JStr(S.Empty))
        ELSE LET value == PyGetItem(oedeme_data, field)
             IN  IF Raised(value) THEN value
                 ELSE IF field # K.taille THEN value
                 ELSE IF value.v.t # "str" THEN Raise("AttributeError")
                 ELSE Ok(JStr(Lower(value.v.v)))

\* for side in ['left', 'right']: results.append(the detail of that eye)
OedemeDetails(analysis, field) ==
    LET left == OedemeDetail(analysis.v[K.left_eye], field)
        right == OedemeDetail(analysis.v[K.right_eye], field)
    IN  IF Raised(left) THEN left
        ELSE IF Raised(right) THEN right
        ELSE Ok(<<left.v, right.v>>)

\* for side in ['left', 'right']: results.append(the EDTRS text of that eye)
EdtrsValues(analysis) ==
    LET left == EdtrsValue(analysis.v[K.left_eye])
        right == EdtrsValue(analysis.v[K.right_eye])
    IN  IF Raised(left) THEN left
        ELSE IF Raised(right) THEN right
        ELSE Ok(<<left.v, right.v>>)

\* BuildResults with the main values of the right eye before those of the left eye
BuildResults_right_first(analysis, left_briding, left_decollement, right_briding, right_decollement) ==
    LET left == MainValues(analysis.v[K.left_eye], left_briding, left_decollement)
        right == MainValues(analysis.v[K.right_eye], right_briding, right_decollement)
        nb == OedemeDetails(analysis, K.nb_logette)
        taille == OedemeDetails(analysis, K.taille)
        loc == OedemeDetails(analysis, K.localisation)
        edtrs == EdtrsValues(analysis)
    IN  IF Raised(left) THEN left
        ELSE IF Raised(right) THEN right
        ELSE IF Raised(nb) THEN nb
        ELSE IF Raised(taille) THEN taille
        ELSE IF Raised(loc) THEN loc
        ELSE IF Raised(edtrs) THEN edtrs
        ELSE Ok(right.v \o left.v \o nb.v \o taille.v \o loc.v \o edtrs.v)

\* the results list built from the normalised analysis (lines 768-822)
BuildResults(analysis, left_briding, left_decollement, right_briding, right_decollement) ==
    LET left == MainValues(analysis.v[K.left_eye], left_briding, left_decollement)
        right == MainValues(analysis.v[K.right_eye], right_briding, right_decollement)
        nb == OedemeDetails(analysis, K.nb_logette)
        taille == OedemeDetails(analysis, K.taille)
        loc == OedemeDetails(analysis, K.localisation)
        edtrs == EdtrsValues(analysis)
    IN  IF Raised(left) THEN left
        ELSE IF Raised(right) THEN right
        ELSE IF Raised(nb) THEN nb
        ELSE IF Raised(taille) THEN taille
        ELSE IF Raised(loc) THEN loc
        ELSE IF Raised(edtrs) THEN edtrs
        ELSE Ok(left.v \o right.v \o nb.v \o taille.v \o loc.v \o edtrs.v)

NOutputs == 22
NoneList == [i \in 1..NOutputs |-> JNull]
NotRun == [t |-> "none"]

(***************************************************************************)
(* What the completion service does on one call: it raises, or it answers  *)
(* with no content, or with a text: body, bare or wrapped in a fence.      *)
(***************************************************************************)
Wrap(body, fence) ==
    IF fence = "json" THEN S.FenceJson \o <<"\n">> \o body \o <<"\n">> \o S.Fence
    ELSE IF fence = "generic" THEN S.Fence \o <<"\n">> \o body \o <<"\n">> \o S.Fence
    ELSE body

Completion(c) ==
    IF c.kind = "raises" THEN Raise("APIError")
    ELSE IF c.kind = "no_content" THEN Ok(JNull)
    ELSE Ok(JStr(Wrap(c.body, c.fence)))

\* the results built from processed, or the exception process_gpt_response raised
Results(raw, processed, left_briding, left_decollement, right_briding, right_decollement) ==
    [result |-> IF Raised(processed) THEN processed
                ELSE BuildResults(processed.v, left_briding, left_decollement,
                                  right_briding, right_decollement),
     raw |-> raw,
     analysis |-> processed]

\* analysis = process_gpt_response(raw_response), and the results built from it
Processed(raw, left_briding, left_decollement, right_briding, right_decollement) ==
    Results(raw, process_gpt_response(raw), left_briding, left_decollement,
            right_briding, right_decollement)

\* analyze_image's run after the guard: [result, raw, analysis]
AnalyzeUploaded(contents, left_briding, left_decollement, right_briding, right_decollement, client_ok, completion) ==
    LET image_base64 == encode_image_contents(contents.v)
    IN  IF Raised(image_base64)
        THEN [result |-> image_base64, raw |-> NotRun, analysis |-> NotRun]
        ELSE Processed(analyze_with_gpt(client_ok, completion), left_briding,
                       left_decollement, right_briding, right_decollement)

\* if not n_clicks or not contents: return [None] * 22
analyze_image(nclicks, contents, left_briding, left_decollement, right_briding, right_decollement, client_ok, completion) ==
    IF nclicks = 0 \/ ~Truthy(contents)
    THEN [result |-> Ok(NoneList), raw |-> NotRun, analysis |-> NotRun]
    ELSE AnalyzeUploaded(contents, left_briding, left_decollement, right_briding,
                         right_decollement, client_ok, completion)

(***************************************************************************)
(* Texts the completion service may answer with.  A document is a JSON     *)
(* value whose objects are sequences of <<key, value>> pairs, in the order *)
(* they are written; Dump writes it out as json.dumps does.                *)
(***************************************************************************)
DObj(pairs) == [t |-> "obj", v |-> pairs]

RECURSIVE Dump(_), DumpPairs(_, _), DumpItems(_, _)
Dump(doc) ==
    IF doc.t = "null" THEN <<"n","u","l","l">>
    ELSE IF doc.t = "bool" THEN (IF doc.v THEN <<"t","r","u","e">> ELSE <<"f","a","l","s","e">>)
    ELSE IF doc.t = "num" THEN Decimal(doc.v)
    ELSE IF doc.t = "str" THEN <<"\"">> \o doc.v \o <<"\"">>
    ELSE IF doc.t = "arr" THEN <<"[">> \o DumpItems(doc.v, 1) \o <<"]">>
    ELSE <<"{">> \o DumpPairs(doc.v, 1) \o <<"}">>

DumpPairs(pairs, i) ==
    IF i > Len(pairs) THEN <<>>
    ELSE <<"\"">> \o pairs[i][1] \o <<"\"", ":", " ">> \o Dump(pairs[i][2])
         \o (IF i < Len(pairs) THEN <<",", " ">> ELSE <<>>) \o DumpPairs(pairs, i + 1)

DumpItems(items, i) ==
    IF i > Len(items) THEN <<>>
    ELSE Dump(items[i]) \o (IF i < Len(items) THEN <<",", " ">> ELSE <<>>) \o DumpItems(items, i + 1)

\* spellings of a status, a taille and a membrane value that an answer may use
StatusWords ==
    {<<"p","r","e","s","e","n","t">>, <<"P","R","E","S","E","N","T">>, 
     <<"P","r","e'","s","e","n","t","e">>, <<"p","R","E'","S","E","N","T","E">>, 
     <<"P","r","e'","s","e","n","t">>, <<"p","r","e'","s","e","n","t">>, 
     <<"P","r","e'","s","e","n","t","s">>, <<"p","r","e'","s","e","n","t","s">>, 
     <<"A","b","s","e","n","t","e">>, <<"a","b","s","e","n","t","e">>, 
     <<"A","b","s","e","n","t">>, <<"A","B","S","E","N","T">>, 
     <<"A","b","s","e","n","t","s">>, <<>>, <<"n","o","n">>, 
     <<"n","o","t"," ","p","r","e","s","e","n","t">>}

TailleWords ==
    {<<"s","m","a","l","l">>, <<"S","m","a","l","l">>, <<"p","e","t","i","t">>, 
     <<"<","1","0","0">>, <<"m","e","d","i","u","m">>, <<"g","r","a","n","d">>, 
     <<"1","0","0","-","2","0","0">>, <<"l","a","r","g","e">>, <<">","2","0","0">>, 
     <<"h","u","g","e">>, <<"H","u","g","e">>, <<"p","e","t","i","t","e">>, 
     <<"G","r","a","n","d","e">>, <<"v","o","l","u","m","i","n","e","u","s","e">>, <<>>}

MembraneWords ==
    {<<"C","o","n","t","i","n","u","e">>, <<"c","o","n","t","i","n","u","e">>, 
     <<"d","i","s","c","o","n","t","i","n","u","e">>, 
     <<"P","a","r","t","i","e","l","l","e","m","e","n","t"," ","i","n","t","e","r","r","o","m","p","u","e">>, 
     <<"p","a","r","t","i","e","l","l","e">>, 
     <<"C","o","m","p","l","e!","t","e","m","e","n","t"," ","i","n","t","e","r","r","o","m","p","u","e">>, 
     <<"c","o","m","p","l","e!","t","e","m","e","n","t"," ","i","n","t","e","r","r","o","m","p","u","e">>, 
     <<"C","O","M","P","L","E","T","E">>, <<"i","n","t","e","r","r","o","m","p","u","e">>, 
     <<>>, <<"c","o","m","p","l","e","t"," ","e","t"," ","p","a","r","t","i","e","l">>}

\* words and numbers an answer may hold
W ==
    [timeout |-> <<"t","i","m","e","o","u","t">>,
     n2 |-> <<"2">>,
     n310 |-> <<"3","1","0">>,
     n295 |-> <<"2","9","5">>,
     x |-> <<"x">>,
     foveolaire |-> <<"f","o","v","e'","o","l","a","i","r","e">>,
     focale |-> <<"f","o","c","a","l","e">>,
     Sorry |-> <<"S","o","r","r","y">>,
     note |-> <<"n","o","t","e">>,
     fenced_number |-> <<"bq","bq","bq","1","bq","bq","bq">>,
     prose |-> <<"V","o","i","c","i",":"," ">>]

Eyes == {K.left_eye, K.right_eye}
StatusFields == {K.dril, K.oedeme, K.points_hyperreflectifs}

\* {eye: {field: value}}
OneField(eye, field, value) == DObj(<< <<eye, DObj(<< <<field, value>> >>)>> >>)
StatusDoc(status) == DObj(<< <<K.status, JStr(status)>> >>)

\* a complete eye record in the closed vocabulary
FullEye(dril, extent, oedeme, taille, mle, points, thickness) ==
    DObj(<< <<K.dril, DObj(<< <<K.status, JStr(dril)>>, <<K.extent, JStr(extent)>> >>)>>,
            <<K.oedeme, DObj(<< <<K.status, JStr(oedeme)>>, <<K.nb_logette, JStr(W.n2)>>,
                                <<K.taille, JStr(taille)>>, <<K.localisation, JStr(W.foveolaire)>> >>)>>,
            <<K.mle, JStr(mle)>>,
            <<K.ze, JStr(S.Continue)>>,
            <<K.points_hyperreflectifs, DObj(<< <<K.status, JStr(points)>>, <<K.nombre, JStr(S.Empty)>>,
                                                <<K.localisation, JStr(S.Empty)>> >>)>>,
            <<K.epaisseur_retinienne, DObj(<< <<K.central, JStr(thickness)>>, <<K.superieur, JStr(S.Empty)>>,
                                              <<K.inferieur, JStr(W.n295)>>, <<K.nasal, JStr(S.Empty)>>,
                                              <<K.temporal, JStr(S.Empty)>> >>)>> >>)

FullLeft == FullEye(S.Presente, W.focale, S.Present, S.petite, S.PartiellementInterrompue, S.Absents, W.n310)
FullRight == FullEye(S.Absente, S.Empty, S.Absent, S.Empty, S.Continue, S.Presents, S.Empty)
Both(left, right) == DObj(<< <<K.left_eye, left>>, <<K.right_eye, right>> >>)

\* well-formed AnalysisResult documents: both eyes, every field, closed vocabulary
ValidDocs ==
    {Both(FullLeft, FullRight), Both(FullRight, FullLeft),
     \* the free-text extent quotes a fenced number
     Both(FullEye(S.Presente, W.fenced_number, S.Absent, S.Empty, S.Continue, S.Absents, S.Empty),
          FullRight)}

\* an eye record with the two radio fields as well: every key of the default eye
Complete(eye, briding, decollement) ==
    DObj(eye.v \o << <<K.briding, JStr(briding)>>, <<K.decollement, JStr(decollement)>> >>)

\* complete records in the closed vocabulary
CanonicalDocs ==
    {Both(Complete(FullLeft, S.Present, S.Absent), Complete(FullRight, S.Absent, S.Absent)),
     Both(Complete(FullEye(S.Absente, S.Empty, S.Present, S.volumineuse, S.CompletementInterrompue,
                           S.Presents, W.n310), S.Absent, S.Present),
          Complete(FullEye(S.Presente, W.focale, S.Present, S.grande, S.Continue,
                           S.Absents, S.Empty), S.Absent, S.Absent))}

\* answers that vary one field of one eye
FieldDocs ==
    {OneField(eye, field, StatusDoc(w)) : eye \in Eyes, field \in StatusFields, w \in StatusWords}
    \cup {OneField(K.left_eye, K.oedeme,
                   DObj(<< <<K.status, JStr(st)>>, <<K.taille, JStr(w)>> >>)) :
              st \in {S.Present, S.Absent}, w \in TailleWords}
    \cup {OneField(eye, field, JStr(w)) : eye \in Eyes, field \in {K.mle, K.ze}, w \in MembraneWords}
    \cup {OneField(eye, K.epaisseur_retinienne, v) : eye \in Eyes,
              v \in {JStr(W.n310), JStr(S.Empty), DObj(<< <<K.central, JStr(W.n310)>> >>)}}

\* every upper/lower casing of a word
RECURSIVE Casings(_)
Casings(w) ==
    IF w = <<>> THEN {<<>>}
    ELSE {<<x>> \o rest : x \in {LowerChar(Head(w)), UpperChar(Head(w))}, rest \in Casings(Tail(w))}

\* a dril status in every casing of "present" and of "pre'sente"
CasingWords == Casings(S.present) \cup Casings(S.Presente)
CasingDocs == {OneField(K.left_eye, K.dril, StatusDoc(w)) : w \in CasingWords}

\* values of the wrong type or shape
Odd == {JNull, JNum(3), JBool(TRUE), JStr(W.x), JArr(<<>>), DObj(<<>>)}

MalformedDocs ==
    Odd \cup {JStr(K.error), JArr(<<JStr(K.error)>>), JStr(K.left_eye)}
    \cup {DObj(<< <<eye, v>> >>) : eye \in Eyes, v \in Odd \cup {JStr(K.dril)}}
    \cup {OneField(K.left_eye, field, v) : v \in Odd,
              field \in {K.dril, K.oedeme, K.mle, K.ze, K.points_hyperreflectifs, K.epaisseur_retinienne}}
    \cup {OneField(K.left_eye, field, DObj(<< <<K.status, v>> >>)) : v \in Odd, field \in StatusFields}
    \cup {OneField(K.left_eye, K.oedeme, DObj(<< <<K.status, JStr(S.Present)>>, <<K.taille, v>> >>)) : v \in Odd}
    \cup {OneField(K.left_eye, K.oedeme, StatusDoc(S.Present)),
          Both(FullLeft, JNull), Both(JNull, FullRight)}

\* answers that carry an "error" key, or keys the schema does not have
ErrorDocs ==
    {DObj(<< <<K.error, JStr(W.timeout)>> >>),
     DObj(<< <<K.error, JNull>>, <<K.left_eye, FullLeft>>, <<K.right_eye, FullRight>> >>),
     DObj(<< <<K.left_eye, DObj(<< <<K.mle, JStr(S.partiel)>> >>)>>, <<K.error, JStr(W.timeout)>> >>)}

ExtraDocs ==
    {DObj(<< <<K.left_eye, DObj(<< <<K.briding, JStr(S.Present)>>, <<K.decollement, JStr(S.Present)>> >>)>>,
             <<K.right_eye, FullRight>>, <<W.note, JStr(W.x)>> >>),
     DObj(<< <<K.right_eye, DObj(<< <<K.briding, JStr(S.Present)>>, <<K.decollement, JNull>> >>)>> >>)}

Docs == ValidDocs \cup CanonicalDocs \cup FieldDocs \cup CasingDocs \cup MalformedDocs \cup ErrorDocs \cup ExtraDocs

\* texts that are no JSON document, and texts with more than one fenced block
RawTexts ==
    {S.Empty, W.Sorry, <<"{">>, <<"{", "}", " ", "x">>,
     W.prose \o Wrap(Dump(Both(FullLeft, FullRight)), "json") \o <<"\n">> \o W.Sorry,
     Wrap(W.Sorry, "generic") \o <<"\n">> \o Wrap(Dump(Both(FullLeft, FullRight)), "json"),
     Wrap(Dump(Both(FullRight, FullLeft)), "generic") \o Wrap(Dump(Both(FullLeft, FullRight)), "generic")}

Bodies == {Dump(d) : d \in Docs} \cup RawTexts
Fences == {"none", "json", "generic"}

Text(body, fence) == [kind |-> "text", body |-> body, fence |-> fence]
ServiceRaises == [kind |-> "raises", body |-> S.Empty, fence |-> "none"]
NoContent == [kind |-> "no_content", body |-> S.Empty, fence |-> "none"]

\* every behaviour of the completion service that the normaliser is checked on
Completions == {Text(b, f) : b \in Bodies, f \in Fences} \cup {ServiceRaises, NoContent}

(***************************************************************************)
(* models.py: the users and the patients kept in memory.  A Python dict    *)
(* with fixed keys is a record; a password hash is modelled by the         *)
(* password it was made from, so that check_password_hash succeeds on that *)
(* password and on no other.                                               *)
(***************************************************************************)
generate_password_hash(password) == <<"pbkdf2:sha256", password>>
check_password_hash(pwhash, password) == pwhash = generate_password_hash(password)

\* the identifiants, names and passwords of the stored users, and words near them
N ==
    [Elamri_Ayoub |-> <<"E","l","a","m","r","i","_","A","y","o","u","b">>,
     Nezar |-> <<"N","e","z","a","r">>,
     nezar |-> <<"n","e","z","a","r">>,
     admin |-> <<"a","d","m","i","n">>,
     ADMIN |-> <<"A","D","M","I","N">>,
     ghost |-> <<"g","h","o","s","t">>,
     DrElamri |-> <<"D","r"," ","E","l","a","m","r","i"," ","A","y","o","u","b">>,
     EngNezar |-> <<"E","n","g"," ","N","e","z","a","r">>,
     Administrateur |-> <<"A","d","m","i","n","i","s","t","r","a","t","e","u","r">>,
     password123 |-> <<"p","a","s","s","w","o","r","d","1","2","3">>,
     admin123 |-> <<"a","d","m","i","n","1","2","3">>,
     Password123 |-> <<"P","a","s","s","w","o","r","d","1","2","3">>]

DEFAULT_USERS ==
    <<[identifiant |-> N.Elamri_Ayoub, nom |-> N.DrElamri,
       password_hash |-> generate_password_hash(N.password123), role |-> "doctor"],
      [identifiant |-> N.Nezar, nom |-> N.EngNezar,
       password_hash |-> generate_password_hash(N.password123), role |-> "doctor"],
      [identifiant |-> N.admin, nom |-> N.Administrateur,
       password_hash |-> generate_password_hash(N.admin123), role |-> "admin"]>>

\* USERS = DEFAULT_USERS.copy(); nothing calls save_users
USERS == DEFAULT_USERS

RECURSIVE AuthenticateFrom(_, _, _)
\* for user in users: the first user whose identifiant matches and whose hash verifies
AuthenticateFrom(identifiant, password, i) ==
    IF i > Len(USERS) THEN JNull
    ELSE IF /\ Lower(USERS[i].identifiant) = Lower(identifiant)
            /\ check_password_hash(USERS[i].password_hash, password)
         THEN USERS[i]
         ELSE AuthenticateFrom(identifiant, password, i + 1)

\* authenticate_user with the password never looked at
authenticate_user_any_password(identifiant, password) ==
    IF \E i \in DOMAIN USERS : Lower(USERS[i].identifiant) = Lower(identifiant)
    THEN USERS[CHOOSE i \in DOMAIN USERS : Lower(USERS[i].identifiant) = Lower(identifiant)]
    ELSE JNull

authenticate_user(identifiant, password) == AuthenticateFrom(identifiant, password, 1)

\* the User object flask-login keeps for a stored user
User(user) == [id |-> user.identifiant, identifiant |-> user.identifiant,
               nom |-> user.nom, role |-> user.role]

\* load_user: the User of the stored user with exactly that identifiant, or None
load_user(user_id) ==
    IF \E i \in DOMAIN USERS : USERS[i].identifiant = user_id
    THEN User(USERS[CHOOSE i \in DOMAIN USERS : USERS[i].identifiant = user_id])
    ELSE JNull

\* the names and molecules of the stored patients, and of those a doctor may add
P ==
    [ElAmrani |-> <<"E","l"," ","A","m","r","a","n","i">>, Ahmed |-> <<"A","h","m","e","d">>, Benkirane |-> <<"B","e","n","k","i","r","a","n","e">>,
     Fatima |-> <<"F","a","t","i","m","a">>, Tazi |-> <<"T","a","z","i">>, Mohammed |-> <<"M","o","h","a","m","m","e","d">>,
     Alaoui |-> <<"A","l","a","o","u","i">>, Laila |-> <<"L","a","i","l","a">>, Idrissi |-> <<"I","d","r","i","s","s","i">>, Younes |-> <<"Y","o","u","n","e","s">>,
     Homme |-> <<"H","o","m","m","e">>, Femme |-> <<"F","e","m","m","e">>, Oui |-> <<"O","u","i">>, Non |-> <<"N","o","n">>,
     anti_vegf |-> <<"a","n","t","i","_","v","e","g","f">>, corticoid |-> <<"c","o","r","t","i","c","o","i","d">>,
     Aflibercept |-> <<"A","f","l","i","b","e","r","c","e","p","t">>, Dexamethasone |-> <<"D","e","x","a","m","e'","t","h","a","s","o","n","e">>,
     Ranibizumab |-> <<"R","a","n","i","b","i","z","u","m","a","b">>, Bevacizumab |-> <<"B","e","v","a","c","i","z","u","m","a","b">>,
     Ben |-> <<"B","e","n">>, Ali |-> <<"A","l","i">>, Ben_Ali |-> <<"B","e","n","_","A","l","i">>, Omar |-> <<"O","m","a","r">>, Ali_Omar |-> <<"A","l","i","_","O","m","a","r">>]

\* a patient record, in the order of the keys of the dicts of DEFAULT_PATIENTS
Patient(nom, prenom, sexe, age, ivt_recu, type_ivt, nb_injections, molecule, doctor) ==
    [nom |-> nom, prenom |-> prenom, sexe |-> sexe, age |-> age, ivt_recu |-> ivt_recu,
     type_ivt |-> type_ivt, nb_injections |-> nb_injections, molecule |-> molecule,
     doctor |-> doctor]

DEFAULT_PATIENTS ==
    <<Patient(JStr(P.ElAmrani), JStr(P.Ahmed), JStr(P.Homme), JNum(65), JStr(P.Oui),
              JStr(P.anti_vegf), JNum(3), JStr(P.Aflibercept), JStr(N.Elamri_Ayoub)),
      Patient(JStr(P.Benkirane), JStr(P.Fatima), JStr(P.Femme), JNum(72), JStr(P.Oui),
              JStr(P.corticoid), JNum(2), JStr(P.Dexamethasone), JStr(N.Elamri_Ayoub)),
      Patient(JStr(P.Tazi), JStr(P.Mohammed), JStr(P.Homme), JNum(58), JStr(P.Non),
              JStr(S.Empty), JNum(0), JStr(S.Empty), JStr(N.Elamri_Ayoub)),
      Patient(JStr(P.Alaoui), JStr(P.Laila), JStr(P.Femme), JNum(63), JStr(P.Oui),
              JStr(P.anti_vegf), JNum(4), JStr(P.Ranibizumab), JStr(N.Elamri_Ayoub)),
      Patient(JStr(P.Idrissi), JStr(P.Younes), JStr(P.Homme), JNum(70), JStr(P.Oui),
              JStr(P.anti_vegf), JNum(5), JStr(P.Bevacizumab), JStr(N.Elamri_Ayoub))>>

Reverse(seq) == [i \in 1..Len(seq) |-> seq[Len(seq) + 1 - i]]

\* get_patients_for_doctor without doctor_patients.reverse()
get_patients_for_doctor_oldest_first(patients, doctor_id) ==
    LET OfDoctor(p) == p.doctor = doctor_id
    IN  SelectSeq(patients, OfDoctor)

\* [p for p in patients if p.get('doctor') == doctor_id], reversed
get_patients_for_doctor(patients, doctor_id) ==
    LET OfDoctor(p) == p.doctor = doctor_id
    IN  Reverse(SelectSeq(patients, OfDoctor))

\* patients.append(patient_data)
add_patient(patients, patient_data) == Append(patients, patient_data)

\* f"{patient['nom']}_{patient['prenom']}"
PatientId(patient) == Format(patient.nom) \o <<"_">> \o Format(patient.prenom)

\* get_patient_by_id: the index (from 0) and the record of the first patient with that id
get_patient_by_id(patients, patient_id) ==
    LET hits == {i \in DOMAIN patients : PatientId(patients[i]) = patient_id}
    IN  IF hits = {} THEN [index |-> JNull, patient |-> JNull]
        ELSE LET first == CHOOSE i \in hits : \A j \in hits : i <= j
             IN  [index |-> JNum(first - 1), patient |-> patients[first]]

(***************************************************************************)
(* auth.py, app.py and patient_management.py: the callbacks of the portal. *)
(* user is flask-login's current_user: a User, or JNull for the anonymous  *)
(* user of a session nobody is logged in to.                               *)
(***************************************************************************)
Path ==
    [root |-> <<"/">>, dashboard |-> <<"/","d","a","s","h","b","o","a","r","d">>, patient |-> <<"/","p","a","t","i","e","n","t","/">>, login |-> <<"/","l","o","g","i","n">>]

NoUpdate == [t |-> "no_update"]

\* process_login: the four outputs, and the User handed to login_user (JNull when none is)
process_login(n_clicks, identifiant, password) ==
    IF n_clicks = 0
    THEN [outputs |-> <<"", FALSE, "danger", Path.root>>, login |-> JNull]
    ELSE IF ~Truthy(identifiant) \/ ~Truthy(password)
    THEN [outputs |-> <<"Veuillez saisir un identifiant et un mot de passe.", TRUE, "danger",
                        Path.root>>,
          login |-> JNull]
    ELSE LET user == authenticate_user(identifiant.v, password.v)
         IN  IF user # JNull
             THEN [outputs |-> <<"Connexion reussie !", TRUE, "success", Path.dashboard>>,
                   login |-> User(user)]
             ELSE [outputs |-> <<"Identifiant ou mot de passe incorrect.", TRUE, "danger",
                                 Path.root>>,
                   login |-> JNull]

\* process_logout: the pathname returned, and whether logout_user was called
process_logout(n_clicks) == [pathname |-> Path.root, logout |-> n_clicks # 0]

StartsWith(s, prefix) == Len(s) >= Len(prefix) /\ SubSeq(s, 1, Len(prefix)) = prefix

RECURSIVE Replace(_, _, _)
\* str.replace(old, new), old not empty: every occurrence, left to right
Replace(s, old, new) ==
    LET i == Find(s, old)
    IN  IF i = 0 THEN s
        ELSE SubSeq(s, 1, i - 1) \o new \o Replace(SubSeq(s, i + Len(old), Len(s)), old, new)

login_layout == [kind |-> "login"]

Card(patient) == [index |-> PatientId(patient), patient |-> patient]

\* patients_slider: a card for each patient of the current user, or "Aucun patient"
patients_slider(user, patients) ==
    LET shown == get_patients_for_doctor(patients, JStr(user.identifiant))
    IN  IF shown = <<>> THEN [kind |-> "no_patient"]
        ELSE [kind |-> "slider", cards |-> [i \in DOMAIN shown |-> Card(shown[i])]]

dashboard_layout(user, patients) ==
    [kind |-> "dashboard", nom |-> user.nom, slider |-> patients_slider(user, patients)]

patient_detail_layout(user, patients, patient_id) ==
    LET found == get_patient_by_id(patients, patient_id)
    IN  IF found.patient = JNull THEN [kind |-> "not_found"]
        ELSE [kind |-> "detail", patient |-> found.patient]

\* if pathname and pathname.startswith('/patient/'): pathname.replace('/patient/', '')
PatientIdOf(pathname) ==
    IF pathname.t = "str" /\ StartsWith(pathname.v, Path.patient)
    THEN JStr(Replace(pathname.v, Path.patient, S.Empty))
    ELSE JNull

display_page(user, patients, pathname) ==
    IF user # JNull
    THEN IF pathname = JStr(Path.dashboard) THEN dashboard_layout(user, patients)
         ELSE IF Truthy(PatientIdOf(pathname))
         THEN patient_detail_layout(user, patients, PatientIdOf(pathname).v)
         ELSE [kind |-> "location", pathname |-> Path.dashboard]
    ELSE login_layout

\* the outputs of save_new_patient that leave the form and the slider as they are
Rejected(message, is_open) == <<message, is_open, "danger">> \o [i \in 1..9 |-> NoUpdate]

\* the record save_new_patient stores
NewPatient(nom, prenom, age, sexe, ivt_recu, type_ivt, nb_injections, molecule, doctor) ==
    Patient(nom, prenom, sexe, age, ivt_recu,
            IF ivt_recu = JStr(P.Oui) THEN type_ivt ELSE JStr(S.Empty),
            IF ivt_recu = JStr(P.Oui) /\ Truthy(nb_injections) THEN nb_injections ELSE JNum(0),
            IF ivt_recu = JStr(P.Oui) THEN molecule ELSE JStr(S.Empty),
            doctor)

\* the outputs after add_patient: the message, the cleared form, the slider made anew
Saved(user, patients, nom, prenom) ==
    <<<<"Patient ">> \o Format(nom) \o <<" ">> \o Format(prenom) \o <<" ajoute avec succes !">>,
      TRUE, "success", JStr(S.Empty), JStr(S.Empty), JNull, JStr(P.Homme), JStr(P.Non),
      JStr(P.anti_vegf), JNull, JStr(S.Empty), patients_slider(user, patients)>>

\* save_new_patient without the check of nb_injections and molecule
save_new_patient_no_ivt_check(user, patients, n_clicks, nom, prenom, age, sexe, ivt_recu, type_ivt, nb_injections, molecule) ==
    IF n_clicks = 0
    THEN [result |-> Ok(Rejected("", FALSE)), patients |-> patients]
    ELSE IF ~Truthy(nom) \/ ~Truthy(prenom) \/ ~Truthy(age)
    THEN [result |-> Ok(Rejected("Veuillez remplir tous les champs obligatoires (nom, prenom, age).", TRUE)),
          patients |-> patients]
    ELSE IF user = JNull
    THEN [result |-> Raise("AttributeError"), patients |-> patients]
    ELSE [result |-> Ok(Saved(user, add_patient(patients, NewPatient(nom, prenom, age, sexe, ivt_recu, type_ivt, nb_injections, molecule, JStr(user.identifiant))), nom, prenom)),
          patients |-> add_patient(patients, NewPatient(nom, prenom, age, sexe, ivt_recu, type_ivt, nb_injections, molecule, JStr(user.identifiant)))]

\* save_new_patient: how the call ends, and PATIENTS after it
save_new_patient(user, patients, n_clicks, nom, prenom, age, sexe, ivt_recu, type_ivt, nb_injections, molecule) ==
    IF n_clicks = 0
    THEN [result |-> Ok(Rejected("", FALSE)), patients |-> patients]
    ELSE IF ~Truthy(nom) \/ ~Truthy(prenom) \/ ~Truthy(age)
    THEN [result |-> Ok(Rejected("Veuillez remplir tous les champs obligatoires (nom, prenom, age).", TRUE)),
          patients |-> patients]
    ELSE IF ivt_recu = JStr(P.Oui) /\ (~Truthy(nb_injections) \/ ~Truthy(molecule))
    THEN [result |-> Ok(Rejected("Veuillez indiquer le nombre d'injections et la molecule.", TRUE)),
          patients |-> patients]
    ELSE IF user = JNull
    THEN [result |-> Raise("AttributeError"), patients |-> patients]
    ELSE [result |-> Ok(Saved(user, add_patient(patients, NewPatient(nom, prenom, age, sexe, ivt_recu, type_ivt, nb_injections, molecule, JStr(user.identifiant))), nom, prenom)),
          patients |-> add_patient(patients, NewPatient(nom, prenom, age, sexe, ivt_recu, type_ivt, nb_injections, molecule, JStr(user.identifiant)))]

(***************************************************************************)
(* The report and the therapeutic plan: the record rebuilt from the form,  *)
(* generate_report, generate_therapeutic_plan and the two callbacks.       *)
(***************************************************************************)
\* the static messages of generate_report and generate_therapeutic_plan, and the
\* keys of report_data that analysis_data does not have
M ==
    [no_client_report |-> <<"I","m","p","o","s","s","i","b","l","e"," ","d","e"," ","g","e'","n","e'","r","e","r"," ","u","n"," ","r","a","p","p","o","r","t"," ","s","a","n","s"," ","c","l","e'"," ","A","P","I"," ","O","p","e","n","A","I",".">>,
     report_error |-> <<"E","r","r","e","u","r"," ","l","o","r","s"," ","d","e"," ","l","a"," ","g","e'","n","e'","r","a","t","i","o","n"," ","d","u"," ","r","a","p","p","o","r","t","."," ","V","e","u","i","l","l","e","z"," ","r","e'","e","s","s","a","y","e","r",".">>,
     no_client_plan |-> <<"I","m","p","o","s","s","i","b","l","e"," ","d","e"," ","g","e'","n","e'","r","e","r"," ","u","n"," ","p","l","a","n"," ","t","h","e'","r","a","p","e","u","t","i","q","u","e"," ","s","a","n","s"," ","c","l","e'"," ","A","P","I"," ","O","p","e","n","A","I",".">>,
     plan_error |-> <<"E","r","r","e","u","r"," ","l","o","r","s"," ","d","e"," ","l","a"," ","g","e'","n","e'","r","a","t","i","o","n"," ","d","u"," ","p","l","a","n"," ","t","h","e'","r","a","p","e","u","t","i","q","u","e","."," ","V","e","u","i","l","l","e","z"," ","r","e'","e","s","s","a","y","e","r",".">>,
     taille_logette |-> <<"t","a","i","l","l","e","_","l","o","g","e","t","t","e">>,
     points |-> <<"p","o","i","n","t","s">>,
     normal |-> <<"n","o","r","m","a","l">>,
     ivt_recu |-> <<"i","v","t","_","r","e","c","u">>,
     Colon |-> <<":">>,
     Newline |-> <<"\n">>]

\* value if value else default
OrDefault(value, default) == IF Truthy(value) THEN value ELSE JStr(default)

\* edtrs.split(",")[0].split(":")[1].strip() if edtrs and ":" in edtrs else ""
CentralFromEdtrs(edtrs) ==
    IF ~Truthy(edtrs) THEN Ok(JStr(S.Empty))
    ELSE IF edtrs.t # "str" THEN Raise("TypeError")
    ELSE IF ~Contains(edtrs.v, M.Colon) THEN Ok(JStr(S.Empty))
    ELSE IF Len(Split(Split(edtrs.v, S.Comma)[1], M.Colon)) < 2 THEN Raise("IndexError")
    ELSE Ok(JStr(Strip(Split(Split(edtrs.v, S.Comma)[1], M.Colon)[2])))

\* one eye of analysis_data, from the seven main values starting at base and the
\* four details at detail, detail + 2, detail + 4 and detail + 6
EyeFromForm(values, base, detail, central) ==
    JObj(K.dril :> JObj(K.status :> OrDefault(values[base], S.Absente) @@ K.extent :> JStr(S.Empty))
      @@ K.oedeme :> JObj(K.status :> OrDefault(values[base + 1], S.Absent)
                          @@ K.nb_logette :> OrDefault(values[detail], S.Empty)
                          @@ K.taille :> OrDefault(values[detail + 2], S.Empty)
                          @@ K.localisation :> OrDefault(values[detail + 4], S.Empty))
      @@ K.mle :> OrDefault(values[base + 3], S.Continue)
      @@ K.ze :> OrDefault(values[base + 4], S.Continue)
      @@ K.points_hyperreflectifs :> JObj(K.status :> OrDefault(values[base + 5], S.Absents)
                                          @@ K.nombre :> JStr(S.Empty)
                                          @@ K.localisation :> JStr(S.Empty))
      @@ K.briding :> OrDefault(values[base + 2], S.Absent)
      @@ K.decollement :> OrDefault(values[base + 6], S.Absent)
      @@ K.epaisseur_retinienne :> JObj(K.central :> central))

\* analysis_data = {"left_eye": {...}, "right_eye": {...}} built from the 22 form values
\* (the dict literal is evaluated left eye first)
AnalysisDataOf(values, left_central, right_central) ==
    IF Raised(left_central) THEN left_central
    ELSE IF Raised(right_central) THEN right_central
    ELSE Ok(JObj(K.left_eye :> EyeFromForm(values, 1, 15, left_central.v)
              @@ K.right_eye :> EyeFromForm(values, 8, 16, right_central.v)))

AnalysisDataFromForm(values) ==
    AnalysisDataOf(values, CentralFromEdtrs(values[21]), CentralFromEdtrs(values[22]))

\* d.get(k, default)
DictGet(d, k, default) ==
    IF d.t # "obj" THEN Raise("AttributeError")
    ELSE Ok(IF k \in DOMAIN d.v THEN d.v[k] ELSE default)

\* eye.get(record, {}).get(key, default)
DictGetIn(record, key, default) ==
    IF Raised(record) THEN record ELSE DictGet(record.v, key, default)

\* the entries of report_data[eye] in the order of the dict literal:
\* <<key of report_data, key of the eye, key inside that record (or none), default>>
ReportEntries ==
    << <<K.dril, K.dril, K.status, S.Absente>>,
       <<K.oedeme, K.oedeme, K.status, S.Absent>>,
       <<K.nb_logette, K.oedeme, K.nb_logette, S.Empty>>,
       <<M.taille_logette, K.oedeme, K.taille, S.Empty>>,
       <<K.localisation, K.oedeme, K.localisation, S.Empty>>,
       <<K.mle, K.mle, S.Empty, S.Continue>>,
       <<K.ze, K.ze, S.Empty, S.Continue>>,
       <<M.points, K.points_hyperreflectifs, K.status, S.Absents>>,
       <<K.briding, K.briding, S.Empty, S.Absent>>,
       <<K.decollement, K.decollement, S.Empty, S.Absent>>,
       <<K.epaisseur_retinienne, K.epaisseur_retinienne, K.central, M.normal>> >>

ReportEntry(eye, e) ==
    IF e[3] = S.Empty THEN DictGet(eye, e[2], JStr(e[4]))
    ELSE DictGetIn(DictGet(eye, e[2], JObj(EmptyDict)), e[3], JStr(e[4]))

\* acc[key] = value, when neither raised
ReportEntryInto(acc, key, value) ==
    IF Raised(value) THEN value ELSE Ok(JObj(DictSet(acc.v.v, key, value.v)))

\* {"left_eye": left, "right_eye": right}
ReportBoth(left, right) ==
    IF Raised(left) THEN left
    ELSE IF Raised(right) THEN right
    ELSE Ok(JObj(K.left_eye :> left.v @@ K.right_eye :> right.v))

RECURSIVE ReportEyeFrom(_, _, _)
ReportEyeFrom(eye, i, acc) ==
    IF Raised(acc) \/ i > Len(ReportEntries) THEN acc
    ELSE ReportEyeFrom(eye, i + 1, ReportEntryInto(acc, ReportEntries[i][1], ReportEntry(eye, ReportEntries[i])))

\* report_data of generate_report (lines 314-346)
ReportData(left_eye, right_eye) ==
    IF Raised(left_eye) THEN left_eye
    ELSE IF Raised(right_eye) THEN right_eye
    ELSE ReportBoth(ReportEyeFrom(left_eye.v, 1, Ok(JObj(EmptyDict))),
                    ReportEyeFrom(right_eye.v, 1, Ok(JObj(EmptyDict))))

\* try: response.choices[0].message.content.strip()  except Exception: return apology
NarrativeText(completion, apology) ==
    IF Raised(completion) THEN Ok(JStr(apology))
    ELSE IF completion.v.t # "str" THEN Ok(JStr(apology))
    ELSE Ok(JStr(Strip(completion.v.v)))

\* generate_report with its try block left out
generate_report_no_try(client_ok, analysis_data, completion) ==
    IF ~client_ok THEN Ok(JStr(M.no_client_report))
    ELSE IF Raised(ReportData(DictGet(analysis_data, K.left_eye, JObj(EmptyDict)), DictGet(analysis_data, K.right_eye, JObj(EmptyDict))))
    THEN ReportData(DictGet(analysis_data, K.left_eye, JObj(EmptyDict)), DictGet(analysis_data, K.right_eye, JObj(EmptyDict)))
    ELSE IF Raised(completion) THEN completion
    ELSE IF completion.v.t # "str" THEN Raise("AttributeError")
    ELSE Ok(JStr(Strip(completion.v.v)))

\* generate_report: the text returned, or the exception raised while report_data is built
generate_report(client_ok, analysis_data, completion) ==
    IF ~client_ok THEN Ok(JStr(M.no_client_report))
    ELSE IF Raised(ReportData(DictGet(analysis_data, K.left_eye, JObj(EmptyDict)), DictGet(analysis_data, K.right_eye, JObj(EmptyDict))))
    THEN ReportData(DictGet(analysis_data, K.left_eye, JObj(EmptyDict)), DictGet(analysis_data, K.right_eye, JObj(EmptyDict)))
    ELSE NarrativeText(completion, M.report_error)

\* generate_therapeutic_plan: the text returned, or the exception raised while the
\* prompt is built (patient_info.get, analysis_data["right_eye"], analysis_data["left_eye"])
generate_therapeutic_plan(client_ok, analysis_data, report_text, patient_info, completion) ==
    IF ~client_ok THEN Ok(JStr(M.no_client_plan))
    ELSE IF Truthy(patient_info) /\ Raised(DictGet(patient_info, M.ivt_recu, JNull))
    THEN DictGet(patient_info, M.ivt_recu, JNull)
    ELSE IF Raised(PyGetItem(analysis_data, K.right_eye)) THEN PyGetItem(analysis_data, K.right_eye)
    ELSE IF Raised(PyGetItem(analysis_data, K.left_eye)) THEN PyGetItem(analysis_data, K.left_eye)
    ELSE NarrativeText(completion, M.plan_error)

\* [html.P(line) for line in text.split('\n') if line.strip()]: the lines shown
RECURSIVE Paragraphs(_, _)
Paragraphs(lines, i) ==
    IF i > Len(lines) THEN <<>>
    ELSE IF Strip(lines[i]) = S.Empty THEN Paragraphs(lines, i + 1)
    ELSE <<JStr(lines[i])>> \o Paragraphs(lines, i + 1)

\* the text of the paragraphs of synthesized-report.children, each followed by "\n"
RECURSIVE ReportTextOf(_, _)
ReportTextOf(children, i) ==
    IF children.t # "arr" \/ i > Len(children.v) THEN S.Empty
    ELSE (IF children.v[i].v # S.Empty THEN children.v[i].v \o M.Newline ELSE S.Empty)
         \o ReportTextOf(children, i + 1)

\* what a toggle returns once the text is there: (not is_open, the paragraphs)
Toggled(is_open, analysis_data, text) ==
    [outputs |-> IF Raised(text) THEN text
                 ELSE Ok(<<~is_open, JArr(Paragraphs(Split(text.v.v, M.Newline), 1))>>),
     analysis_data |-> analysis_data,
     text |-> text]

\* toggle_report_synthesis after its guard
ReportOf(is_open, analysis_data, client_ok, completion) ==
    IF Raised(analysis_data)
    THEN [outputs |-> analysis_data, analysis_data |-> analysis_data, text |-> NotRun]
    ELSE Toggled(is_open, analysis_data, generate_report(client_ok, analysis_data.v, completion))

toggle_report_synthesis(nclicks, is_open, values, client_ok, completion) ==
    IF nclicks = 0
    THEN [outputs |-> Ok(<<is_open, JStr(S.Empty)>>), analysis_data |-> NotRun, text |-> NotRun]
    ELSE ReportOf(is_open, AnalysisDataFromForm(values), client_ok, completion)

\* toggle_therapeutic_plan after its guard
PlanOf(is_open, report_text, analysis_data, client_ok, completion) ==
    IF Raised(analysis_data)
    THEN [outputs |-> analysis_data, analysis_data |-> analysis_data, text |-> NotRun]
    ELSE Toggled(is_open, analysis_data,
                 generate_therapeutic_plan(client_ok, analysis_data.v, report_text, JNull, completion))

toggle_therapeutic_plan(nclicks, is_open, report_children, values, client_ok, completion) ==
    IF nclicks = 0
    THEN [outputs |-> Ok(<<is_open, JStr(S.Empty)>>), analysis_data |-> NotRun, text |-> NotRun]
    ELSE PlanOf(is_open, ReportTextOf(report_children, 1), AnalysisDataFromForm(values),
                client_ok, completion)

(***************************************************************************)
(* The state of one session of the dashboard's analysis page               *)
(***************************************************************************)
VARIABLES
    client_is_set,    \* the module's client is not None (set once, at import)
    contents,         \* upload-image.contents: None or a data URL
    analyze_disabled, \* analyze-button.disabled
    n_clicks,         \* analyze-button.n_clicks
    n_selections,     \* how many times the clinician has selected a radio value
    form,             \* the values of the 22 components analyze_image writes, in its output order
    analyze_result,   \* how the analyze_image call just made ended: Ok(list) or Raise(e)
    completion,       \* what the completion service did on the call made to it
    raw_response,     \* what analyze_with_gpt returned on that call
    response_after,   \* the dict analyze_with_gpt returned, as process_gpt_response left it
    analysis          \* how process_gpt_response ended on it: Ok(value) or Raise(e)

\* the portal: logging in and out, the pages, the patients
VARIABLES
    session,          \* for each browser, the user id in its flask session (JNull when none)
    PATIENTS,         \* models.PATIENTS
    n_saves,          \* how many times save-patient-btn has been clicked
    portal_call       \* the portal callback call just made: its arguments and how it ended

portal_vars == <<session, PATIENTS, n_saves, portal_call>>

\* the report and the therapeutic plan of the analysis page
VARIABLES
    report,           \* synthetize-report-btn.n_clicks, report-collapse.is_open, synthesized-report.children
    plan,             \* therapeutic-plan-btn.n_clicks, therapeutic-plan-collapse.is_open, therapeutic-plan.children
    narrative_call    \* the report or plan callback call just made: the record it rebuilt and how it ended

report_vars == <<report, plan, narrative_call>>

vars == <<client_is_set, contents, analyze_disabled, n_clicks, n_selections, form, analyze_result,
          completion, raw_response,
          response_after, analysis, portal_vars, report_vars>>

\* the browsers that hold a session with the server
Browsers == {"b1"}

\* nobody is logged in, and the patients are the default ones
PortalInit ==
    /\ session = [b \in Browsers |-> JNull]
    /\ PATIENTS = DEFAULT_PATIENTS
    /\ n_saves = 0
    /\ portal_call = NotRun

\* no report and no plan has been asked for: both collapses are closed and empty
ReportInit ==
    /\ report = [n_clicks |-> 0, is_open |-> FALSE, children |-> JNull]
    /\ plan = [n_clicks |-> 0, is_open |-> FALSE, children |-> JNull]
    /\ narrative_call = NotRun

\* the analyze button may be clicked this many times
MaxClicks == 2

\* the clinician may select a briding or decollement value this many times
MaxSelections == 1

U_image == <<"d","a","t","a",":","i","m","a","g","e","/","p","n","g",";","b","a","s","e","6","4",",","i","V","B","O","R">>
U_empty_file == <<"d","a","t","a",":">>
U_two_commas == <<"d","a","t","a",":","i","m","a","g","e","/","p","n","g",";","n","a","m","e","=","a",",","b",";","b","a","s","e","6","4",",","i","V","B","O","R">>

\* what the browser can put in upload-image.contents: nothing, an image, an empty file
\* (its data URL has no comma), a data URL whose media type holds a comma
Uploads == {JNull, JStr(U_image), JStr(U_empty_file), JStr(U_two_commas)}

\* the positions of briding and decollement (left, right) among the outputs
LeftBriding == 3
LeftDecollement == 7
RightBriding == 10
RightDecollement == 14
RadioSlots == {LeftBriding, LeftDecollement, RightBriding, RightDecollement}

\* the answers the service gives in a session
Replies ==
    {ServiceRaises, NoContent,
     Text(Dump(Both(FullLeft, FullRight)), "json"),
     Text(Dump(Both(FullRight, FullLeft)), "none"),
     Text(Dump(JNull), "none"),
     Text(W.Sorry, "none"),
     Text(Dump(OneField(K.left_eye, K.oedeme, StatusDoc(S.Present))), "generic"),
     Text(Dump(OneField(K.left_eye, K.dril, JStr(S.Presente))), "none"),
     Text(Dump(DObj(<< <<K.left_eye, DObj(<< <<K.briding, JStr(S.Present)>>, <<K.decollement, JStr(S.Present)>> >>)>>,
                       <<K.right_eye, FullRight>>, <<W.note, JStr(W.x)>> >>)), "none")}

NotCalled == [kind |-> "not_called", body |-> S.Empty, fence |-> "none"]

Init ==
    /\ client_is_set \in BOOLEAN
    /\ contents = JNull
    /\ analyze_disabled = FALSE
    /\ n_clicks = 0
    /\ n_selections = 0
    /\ form = NoneList
    /\ analyze_result = NotRun
    /\ completion = NotCalled
    /\ raw_response = NotRun
    /\ response_after = NotRun
    /\ analysis = NotRun
    /\ PortalInit
    /\ ReportInit

\* the value a callback returned is gone once Dash has applied it and the next event comes
Forget ==
    /\ analyze_result' = NotRun
    /\ completion' = NotCalled
    /\ raw_response' = NotRun
    /\ response_after' = NotRun
    /\ analysis' = NotRun
    /\ narrative_call' = NotRun

\* the clinician drops a file on the upload box
UploadImage(c) ==
    /\ contents # c
    /\ contents' = c
    /\ Forget
    /\ UNCHANGED <<client_is_set, analyze_disabled, n_clicks, n_selections, form>>
    /\ UNCHANGED <<portal_vars, report, plan>>

\* toggle_analyze_button, run when output-image-upload changed (it shows the image iff
\* contents is truthy): the button is enabled iff an image is shown
ToggleAnalyzeButton ==
    /\ analyze_disabled # ~Truthy(contents)
    /\ analyze_disabled' = ~Truthy(contents)
    /\ Forget
    /\ UNCHANGED <<client_is_set, contents, n_clicks, n_selections, form>>
    /\ UNCHANGED <<portal_vars, report, plan>>

\* the clinician selects a value of a briding or decollement radio group
SelectRadio(slot, value) ==
    /\ n_selections < MaxSelections
    /\ form[slot] # JStr(value)
    /\ form' = [form EXCEPT ![slot] = JStr(value)]
    /\ n_selections' = n_selections + 1
    /\ Forget
    /\ UNCHANGED <<client_is_set, contents, analyze_disabled, n_clicks>>
    /\ UNCHANGED <<portal_vars, report, plan>>

\* a click on the analyze button: analyze_image runs and Dash writes its outputs to the
\* form; a callback that raises leaves the form as it was
AnalyzeImage(c) ==
    /\ ~analyze_disabled
    /\ n_clicks < MaxClicks
    /\ \E run \in {analyze_image(n_clicks + 1, contents, form[LeftBriding], form[LeftDecollement],
                                  form[RightBriding], form[RightDecollement],
                                  client_is_set, Completion(c))} :
           /\ n_clicks' = n_clicks + 1
           /\ analyze_result' = run.result
           /\ form' = IF Raised(run.result) THEN form ELSE run.result.v
           /\ completion' = IF run.raw = NotRun \/ ~client_is_set THEN NotCalled ELSE c
           /\ raw_response' = run.raw
           /\ response_after' = IF run.raw = NotRun THEN NotRun ELSE ResponseAfter(run.raw)
           /\ analysis' = run.analysis
    /\ UNCHANGED <<client_is_set, contents, analyze_disabled, n_selections>>
    /\ narrative_call' = NotRun
    /\ UNCHANGED <<portal_vars, report, plan>>

Next ==
    \/ \E c \in Uploads : UploadImage(c)
    \/ ToggleAnalyzeButton
    \/ \E slot \in RadioSlots, value \in {S.Present, S.Absent} : SelectRadio(slot, value)
    \/ \E c \in Replies : AnalyzeImage(c)

Spec == Init /\ [][Next]_vars

(***************************************************************************)
(* The analysis page with its report and plan buttons.  The completion     *)
(* service is called once more by each of them.                            *)
(***************************************************************************)
\* each of the two buttons may be clicked this many times
MaxNarratives == 1

\* a narrative of two paragraphs, with blank lines and spaces around them
NarrativeBody == <<" ","O","D",":"," ","o","e","d","e!","m","e","\n"," ","\n","O","G",":"," ","n","o","r","m","a","l","\n"," ">>

\* what the service does when asked for a narrative
NarrativeReplies == {ServiceRaises, NoContent, Text(NarrativeBody, "none")}

NarrativeCall(callback, c, run) ==
    [callback |-> callback, completion |-> c, analysis_data |-> run.analysis_data,
     text |-> run.text, outputs |-> run.outputs]

\* what Dash writes to a collapse and its text after a click: nothing when the callback raised
Written(shown, run) ==
    IF Raised(run.outputs) THEN [shown EXCEPT !.n_clicks = @ + 1]
    ELSE [n_clicks |-> shown.n_clicks + 1, is_open |-> run.outputs.v[1], children |-> run.outputs.v[2]]

\* a click on the report button: toggle_report_synthesis on the current form values
ToggleReportSynthesis(c) ==
    /\ report.n_clicks < MaxNarratives
    /\ \E run \in {toggle_report_synthesis(report.n_clicks + 1, report.is_open, form,
                                            client_is_set, Completion(c))} :
           /\ report' = Written(report, run)
           /\ narrative_call' = NarrativeCall("toggle_report_synthesis", c, run)
    /\ UNCHANGED <<client_is_set, contents, analyze_disabled, n_clicks, n_selections, form,
                   analyze_result, completion, raw_response, response_after, analysis, plan, portal_vars>>

\* a click on the plan button: toggle_therapeutic_plan on the form values and the report shown
ToggleTherapeuticPlan(c) ==
    /\ plan.n_clicks < MaxNarratives
    /\ \E run \in {toggle_therapeutic_plan(plan.n_clicks + 1, plan.is_open, report.children, form,
                                            client_is_set, Completion(c))} :
           /\ plan' = Written(plan, run)
           /\ narrative_call' = NarrativeCall("toggle_therapeutic_plan", c, run)
    /\ UNCHANGED <<client_is_set, contents, analyze_disabled, n_clicks, n_selections, form,
                   analyze_result, completion, raw_response, response_after, analysis, report, portal_vars>>

NextReport ==
    \/ \E c \in Uploads : UploadImage(c)
    \/ ToggleAnalyzeButton
    \/ \E c \in Replies : AnalyzeImage(c)
    \/ \E c \in NarrativeReplies : ToggleReportSynthesis(c)
    \/ \E c \in NarrativeReplies : ToggleTherapeuticPlan(c)

SpecReport == Init /\ [][NextReport]_vars

(***************************************************************************)
(* The requestor and the normaliser on their own: the service's behaviour  *)
(* is drawn from Completions, analyze_with_gpt is applied to it and then   *)
(* process_gpt_response to what that returned.                             *)
(***************************************************************************)
InitNormalizer ==
    /\ client_is_set \in BOOLEAN
    /\ completion \in Completions
    /\ contents = JNull
    /\ analyze_disabled = FALSE
    /\ n_clicks = 0
    /\ n_selections = 0
    /\ form = NoneList
    /\ analyze_result = NotRun
    /\ raw_response = NotRun
    /\ response_after = NotRun
    /\ analysis = NotRun
    /\ PortalInit
    /\ ReportInit

Request ==
    /\ raw_response = NotRun
    /\ raw_response' = analyze_with_gpt(client_is_set, Completion(completion))
    /\ UNCHANGED <<client_is_set, contents, analyze_disabled, n_clicks, n_selections, form,
                   analyze_result, completion, response_after, analysis>>
    /\ UNCHANGED <<portal_vars, report_vars>>

Normalize ==
    /\ raw_response # NotRun
    /\ analysis = NotRun
    /\ analysis' = process_gpt_response(raw_response)
    /\ response_after' = ResponseAfter(raw_response)
    /\ UNCHANGED <<client_is_set, contents, analyze_disabled, n_clicks, n_selections, form,
                   analyze_result, completion, raw_response>>
    /\ UNCHANGED <<portal_vars, report_vars>>

NextNormalizer == Request \/ Normalize

SpecNormalizer == InitNormalizer /\ [][NextNormalizer]_vars

(***************************************************************************)
(* The portal: browsers log in and out, ask for pages and save patients.   *)
(* A callback can be called from any browser in any state: the server does *)
(* not check that the page holding its button is the one displayed.        *)
(***************************************************************************)
\* the save button may be clicked this many times
MaxSaves == 2

\* flask-login's current_user in the session of browser b
current_user(b) == IF session[b] = JNull THEN JNull ELSE load_user(session[b].v)

\* what may be typed in the login form: <<identifiant, password>>
Credentials ==
    {<<JNull, JStr(N.admin123)>>, <<JStr(N.admin), JStr(S.Empty)>>,
     <<JStr(N.admin), JStr(N.admin123)>>, <<JStr(N.ADMIN), JStr(N.admin123)>>,
     <<JStr(N.admin), JStr(N.password123)>>, <<JStr(N.Elamri_Ayoub), JStr(N.password123)>>,
     <<JStr(N.nezar), JStr(N.Password123)>>, <<JStr(N.ghost), JStr(N.password123)>>}

\* the pathnames a browser may ask for
Pathnames ==
    {JNull, JStr(Path.root), JStr(Path.dashboard), JStr(Path.login), JStr(Path.patient),
     JStr(Path.patient \o P.Tazi \o <<"_">> \o P.Mohammed),
     JStr(Path.patient \o P.Ben_Ali \o <<"_">> \o P.Omar),
     JStr(Path.patient \o N.ghost)}

\* what may be in the new-patient form when save is clicked:
\* <<nom, prenom, age, sexe, ivt_recu, type_ivt, nb_injections, molecule>>
NewPatientForms ==
    {<<JStr(P.Ben), JStr(P.Ali_Omar), JNum(40), JStr(P.Homme), JStr(P.Non), JStr(P.anti_vegf), JNull, JStr(S.Empty)>>,
     <<JStr(P.Ben_Ali), JStr(P.Omar), JNum(7), JStr(P.Femme), JStr(P.Oui), JStr(P.corticoid), JNum(2), JStr(P.Aflibercept)>>,
     <<JStr(S.Empty), JStr(P.Omar), JNum(40), JStr(P.Homme), JStr(P.Non), JStr(P.anti_vegf), JNull, JStr(S.Empty)>>,
     <<JStr(P.Ben), JNull, JNum(40), JStr(P.Homme), JStr(P.Non), JStr(P.anti_vegf), JNull, JStr(S.Empty)>>,
     <<JStr(P.Ben), JStr(P.Omar), JNull, JStr(P.Homme), JStr(P.Non), JStr(P.anti_vegf), JNull, JStr(S.Empty)>>,
     <<JStr(P.Ben), JStr(P.Omar), JNum(0), JStr(P.Homme), JStr(P.Non), JStr(P.anti_vegf), JNull, JStr(S.Empty)>>,
     <<JStr(P.Ben), JStr(P.Omar), JNum(40), JStr(P.Homme), JStr(P.Oui), JStr(P.anti_vegf), JNull, JStr(P.Aflibercept)>>,
     <<JStr(P.Ben), JStr(P.Omar), JNum(40), JStr(P.Homme), JStr(P.Oui), JStr(P.anti_vegf), JNum(2), JStr(S.Empty)>>,
     <<JStr(P.Ben), JStr(P.Omar), JNum(40), JStr(P.Homme), JStr(P.Oui), JStr(P.anti_vegf), JNum(0), JNull>>}

Call(callback, b, args, result) ==
    [callback |-> callback, browser |-> b, args |-> args, result |-> result]

\* a click on the login button: process_login, and login_user when the pair verifies
ProcessLogin(b, cred) ==
    /\ \E run \in {process_login(1, cred[1], cred[2])} :
           /\ session' = IF run.login = JNull THEN session
                         ELSE [session EXCEPT ![b] = JStr(run.login.id)]
           /\ portal_call' = Call("process_login", b, cred, Ok(run.outputs))
    /\ UNCHANGED <<PATIENTS, n_saves>>
    /\ UNCHANGED <<client_is_set, contents, analyze_disabled, n_clicks, n_selections, form,
                   analyze_result, completion, raw_response, response_after, analysis, report_vars>>

\* a click on the logout item: process_logout, and logout_user
ProcessLogout(b) ==
    /\ \E run \in {process_logout(1)} :
           /\ session' = IF run.logout THEN [session EXCEPT ![b] = JNull] ELSE session
           /\ portal_call' = Call("process_logout", b, <<>>, Ok(run.pathname))
    /\ UNCHANGED <<PATIENTS, n_saves>>
    /\ UNCHANGED <<client_is_set, contents, analyze_disabled, n_clicks, n_selections, form,
                   analyze_result, completion, raw_response, response_after, analysis, report_vars>>

\* url.pathname changed in browser b: display_page
DisplayPage(b, pathname) ==
    /\ portal_call' = Call("display_page", b, <<pathname>>,
                           Ok(display_page(current_user(b), PATIENTS, pathname)))
    /\ UNCHANGED <<session, PATIENTS, n_saves>>
    /\ UNCHANGED <<client_is_set, contents, analyze_disabled, n_clicks, n_selections, form,
                   analyze_result, completion, raw_response, response_after, analysis, report_vars>>

\* a click on the save button of the new-patient form: save_new_patient
SaveNewPatient(b, f) ==
    /\ n_saves < MaxSaves
    /\ n_saves' = n_saves + 1
    /\ \E run \in {save_new_patient(current_user(b), PATIENTS, n_saves + 1, f[1], f[2], f[3], f[4], f[5], f[6], f[7], f[8])} :
           /\ PATIENTS' = run.patients
           /\ portal_call' = Call("save_new_patient", b, f, run.result)
    /\ UNCHANGED session
    /\ UNCHANGED <<client_is_set, contents, analyze_disabled, n_clicks, n_selections, form,
                   analyze_result, completion, raw_response, response_after, analysis, report_vars>>

NextPortal ==
    \/ \E b \in Browsers, cred \in Credentials : ProcessLogin(b, cred)
    \/ \E b \in Browsers : ProcessLogout(b)
    \/ \E b \in Browsers, pathname \in Pathnames : DisplayPage(b, pathname)
    \/ \E b \in Browsers, f \in NewPatientForms : SaveNewPatient(b, f)

SpecPortal == Init /\ [][NextPortal]_vars

(***************************************************************************)
(* Properties of the normaliser, checked under SpecNormalizer              *)
(***************************************************************************)
\* process_gpt_response has been applied to what analyze_with_gpt returned
Normalized == analysis # NotRun

\* the service answered with a text and the client is set: the text reached the parser
Answered == client_is_set /\ completion.kind = "text"

\* C1: the normaliser never raises: whatever the response text, parsing it and applying
\* process_gpt_response to the parsed value returns a value
NormalizerNeverRaises == ~Raised(analysis)

\* an eye record with every documented field and sub-field
FieldsOf(record) == IF record.t = "obj" THEN DOMAIN record.v ELSE {}
CompleteEye(eye_data) ==
    /\ eye_data.t = "obj"
    /\ \A key \in DOMAIN DefaultEye.v :
          /\ key \in DOMAIN eye_data.v
          /\ FieldsOf(DefaultEye.v[key]) \subseteq FieldsOf(eye_data.v[key])

\* C2: every result the normaliser returns holds both eyes, and each eye holds every
\* documented field and sub-field (a sub-field missing from a given record is filled in)
SchemaComplete ==
    analysis.t = "ok" =>
        /\ analysis.v.t = "obj"
        /\ \A eye \in Eyes : eye \in DOMAIN analysis.v.v /\ CompleteEye(analysis.v.v[eye])

\* C5: with no client, or when the completion call raises, analyze_with_gpt returns the
\* default analysis
DefaultOnRequestFailure ==
    (raw_response # NotRun /\ (~client_is_set \/ completion = ServiceRaises))
        => raw_response = generate_default_analysis

\* the completion call raised and analyze_with_gpt returned the default analysis
RequestFailureSeen ==
    client_is_set /\ completion = ServiceRaises /\ raw_response = generate_default_analysis

\* the texts of the well-formed AnalysisResult documents
ValidBodies == {Dump(d) : d \in ValidDocs}

\* the normalised output for a text given without fences
NormalizeText(text) == process_gpt_response(analyze_with_gpt(TRUE, Ok(JStr(text))))

\* C6: a valid AnalysisResult text in json fences, in generic fences or in no fences
\* normalises to the output of the text without fences
FenceWrappingIrrelevant ==
    (Normalized /\ Answered /\ completion.body \in ValidBodies)
        => analysis = NormalizeText(completion.body)

\* the parsed response is an object with an "error" key
ErrorShaped == raw_response.t = "obj" /\ K.error \in DOMAIN raw_response.v

\* C7: for a parsed object with an "error" key, process_gpt_response returns exactly the
\* default two-eye structure
ErrorShortCircuits ==
    (Normalized /\ ErrorShaped) => analysis = Ok(generate_default_analysis)

\* an object with an "error" key and an eye was normalised to the default structure
ErrorWithEyeSeen ==
    /\ ErrorShaped
    /\ K.left_eye \in DOMAIN raw_response.v
    /\ raw_response.v[K.left_eye] # DefaultEye
    /\ analysis = Ok(generate_default_analysis)

\* the parsed response is an object without "error" that holds the eye `present` only
OnlyEye(present) ==
    /\ raw_response.t = "obj"
    /\ K.error \notin DOMAIN raw_response.v
    /\ Eyes \cap DOMAIN raw_response.v = {present}

\* C8: for an input object with one of the two eye keys only, the result holds the missing
\* eye as the default eye record, and the eye that was given
EyeOmission ==
    \A present \in Eyes : \A missing \in Eyes \ {present} :
        (Normalized /\ OnlyEye(present)) =>
            /\ analysis.t = "ok"
            /\ analysis.v.v[missing] = DefaultEye
            /\ ProcessEye(raw_response.v[present]) = Ok(analysis.v.v[present])

\* the dril status of the left eye in a response that holds nothing else
DrilStatusGiven(w) ==
    raw_response = JObj(K.left_eye :> JObj(K.dril :> JObj(K.status :> JStr(w))))

\* the dril status of the left eye in the result
DrilStatusOut == analysis.v.v[K.left_eye].v[K.dril].v[K.status].v

\* the words spelled "present" or "pre'sente" in some casing
Affirmative(w) == Lower(w) \in {S.present, Lower(S.Presente)}

\* C9: a dril status "present", "PRESENT", "Pre'sente", in any casing, becomes "Pre'sente";
\* a status that neither capitalizes to an accepted value nor holds "present" in its
\* lower-cased form becomes "Absente"
DrilStatusNormalized ==
    \A w \in StatusWords \cup CasingWords :
        (Normalized /\ DrilStatusGiven(w)) =>
            /\ analysis.t = "ok"
            /\ Affirmative(w) => DrilStatusOut = S.Presente
            /\ (Capitalize(w) \notin {S.Presente, S.Absente} /\ ~Contains(Lower(w), S.present))
                   => DrilStatusOut = S.Absente

\* "PRESENT" was normalised to "Pre'sente"
DrilStatusSeen ==
    DrilStatusGiven(<<"P","R","E","S","E","N","T">>) /\ Normalized /\ DrilStatusOut = S.Presente

\* the oedeme of the left eye, with a status and the taille w, in a response that holds
\* nothing else
TailleGiven(w) ==
    \E st \in {S.Present, S.Absent} :
        raw_response = JObj(K.left_eye :> JObj(K.oedeme :>
                           JObj(K.status :> JStr(st) @@ K.taille :> JStr(w))))

\* the oedeme taille of the left eye in the result
TailleOut == analysis.v.v[K.left_eye].v[K.oedeme].v[K.taille].v

\* the synonym table as the claim lists it
SynonymsPetite == {S.small, S.petit, S.lt100}
SynonymsGrande == {S.medium, S.grand, S.range100_200}
SynonymsVolumineuse == {S.large, S.gt200}
Synonyms == SynonymsPetite \cup SynonymsGrande \cup SynonymsVolumineuse

\* C10, as stated: the synonyms map to "petite", "grande" and "volumineuse", and a taille
\* that is not in the synonym table comes out equal to the input string
TailleUnchanged ==
    \A w \in TailleWords :
        (Normalized /\ TailleGiven(w)) =>
            /\ analysis.t = "ok"
            /\ w \in SynonymsPetite => TailleOut = S.petite
            /\ w \in SynonymsGrande => TailleOut = S.grande
            /\ w \in SynonymsVolumineuse => TailleOut = S.volumineuse
            /\ w \notin Synonyms => TailleOut = w

\* C10, amended: the table is looked up with the lower-cased taille; a taille whose
\* lower-cased form is a synonym maps to the synonym's value, and every other taille comes
\* out lower-cased
TailleLowerCased ==
    \A w \in TailleWords :
        (Normalized /\ TailleGiven(w)) =>
            /\ analysis.t = "ok"
            /\ Lower(w) \in SynonymsPetite => TailleOut = S.petite
            /\ Lower(w) \in SynonymsGrande => TailleOut = S.grande
            /\ Lower(w) \in SynonymsVolumineuse => TailleOut = S.volumineuse
            /\ Lower(w) \notin Synonyms => TailleOut = Lower(w)

\* the taille "Huge" came out as "huge"
TailleLowerCasedSeen ==
    /\ TailleGiven(<<"H","u","g","e">>)
    /\ Normalized
    /\ TailleOut = <<"h","u","g","e">>

(***************************************************************************)
(* Properties of the analyze_image callback, checked under Spec            *)
(***************************************************************************)
\* C3: the briding and decollement values analyze_image returns are the values of the
\* radio groups it was given as State, on every invocation
BridingDecollementUntouched ==
    [][(n_clicks' # n_clicks /\ analyze_result'.t = "ok") =>
           \A slot \in RadioSlots : analyze_result'.v[slot] = form[slot]]_vars

\* C4: analyze_image completes without raising and returns a list of 22 values, whatever
\* the uploaded contents and whatever the completion service does
AnalyzeImageCompletes ==
    analyze_result # NotRun =>
        analyze_result.t = "ok" /\ Len(analyze_result.v) = NOutputs

(***************************************************************************)
(* Claims on single fields of an eye.  EyeGiven(eye) says the parsed       *)
(* response holds a record for that eye and the normaliser returned.       *)
(***************************************************************************)
EyeGiven(eye) ==
    /\ Normalized
    /\ analysis.t = "ok"
    /\ raw_response.t = "obj"
    /\ K.error \notin DOMAIN raw_response.v
    /\ eye \in DOMAIN raw_response.v
    /\ raw_response.v[eye].t = "obj"

FieldGiven(eye, field) == EyeGiven(eye) /\ field \in DOMAIN raw_response.v[eye].v
FieldIn(eye, field) == raw_response.v[eye].v[field]
FieldOut(eye, field) == analysis.v.v[eye].v[field]

CentralOnly(s) ==
    JObj(K.central :> s @@ K.superieur :> JStr(S.Empty) @@ K.inferieur :> JStr(S.Empty)
         @@ K.nasal :> JStr(S.Empty) @@ K.temporal :> JStr(S.Empty))

\* C11: in every result the normaliser returns, an eye whose epaisseur_retinienne was
\* given as one string s holds {central: s, superieur: "", inferieur: "", nasal: "",
\* temporal: ""}, and an epaisseur_retinienne given as a mapping is the mapping given.
ThicknessCoerced ==
    \A eye \in Eyes :
        FieldGiven(eye, K.epaisseur_retinienne) =>
            /\ FieldIn(eye, K.epaisseur_retinienne).t = "str" =>
                   FieldOut(eye, K.epaisseur_retinienne)
                       = CentralOnly(FieldIn(eye, K.epaisseur_retinienne))
            /\ FieldIn(eye, K.epaisseur_retinienne).t = "obj" =>
                   FieldOut(eye, K.epaisseur_retinienne) = FieldIn(eye, K.epaisseur_retinienne)

ThicknessCoercedSeen ==
    /\ FieldGiven(K.right_eye, K.epaisseur_retinienne)
    /\ FieldIn(K.right_eye, K.epaisseur_retinienne) = JStr(W.n310)
    /\ FieldOut(K.right_eye, K.epaisseur_retinienne) = CentralOnly(JStr(W.n310))

\* the three canonical phrases of mle and ze
CanonicalMembranes == {S.Continue, S.PartiellementInterrompue, S.CompletementInterrompue}

\* "continu", then "partiel", then "complet" in the lower-cased value: the first match wins
ByRoots(w) ==
    IF Contains(Lower(w), S.continu) THEN S.Continue
    ELSE IF Contains(Lower(w), S.partiel) THEN S.PartiellementInterrompue
    ELSE IF Contains(Lower(w), S.complet) THEN S.CompletementInterrompue
    ELSE w

\* C19: in every result the normaliser returns, an mle or ze given as a string is mapped
\* by the first of the roots "continu", "partiel", "complet" its lower-cased form holds,
\* and is unchanged when it holds none; so every casing of a canonical phrase
\* ("comple!tement interrompue" included) becomes that canonical phrase.
MembraneNormalized ==
    \A eye \in Eyes, field \in {K.mle, K.ze} :
        (FieldGiven(eye, field) /\ FieldIn(eye, field).t = "str") =>
            /\ FieldOut(eye, field) = JStr(ByRoots(FieldIn(eye, field).v))
            /\ \A phrase \in CanonicalMembranes :
                   Lower(FieldIn(eye, field).v) = Lower(phrase) => FieldOut(eye, field) = JStr(phrase)

\* the record given for a field of an eye is an object with a string status
StatusGiven(eye, field) ==
    /\ FieldGiven(eye, field)
    /\ FieldIn(eye, field).t = "obj"
    /\ K.status \in DOMAIN FieldIn(eye, field).v
    /\ FieldIn(eye, field).v[K.status].t = "str"

\* the capitalized status if it is accepted, else yes when the status holds "present"
\* in some casing, else no
ClosedStatus(w, accepted, yes, no) ==
    IF Capitalize(w) \in accepted THEN Capitalize(w)
    ELSE IF Contains(Lower(w), S.present) THEN yes
    ELSE no

StatusIsClosed(eye, field, accepted, yes, no) ==
    StatusGiven(eye, field) =>
        /\ FieldOut(eye, field).v[K.status].v \in accepted
        /\ FieldOut(eye, field).v[K.status]
               = JStr(ClosedStatus(FieldIn(eye, field).v[K.status].v, accepted, yes, no))

\* C20: in every result the normaliser returns, an oedeme given as an object with a
\* string status has a status in {Pre'sent, Absent} and a points_hyperreflectifs so given
\* a status in {Pre'sents, Absents}: the capitalized status if that is accepted, else the
\* affirmative spelling when the status holds "present" in some casing, else the negative.
OedemePointsStatusClosed ==
    \A eye \in Eyes :
        /\ StatusIsClosed(eye, K.oedeme, {S.Present, S.Absent}, S.Present, S.Absent)
        /\ StatusIsClosed(eye, K.points_hyperreflectifs, {S.Presents, S.Absents}, S.Presents, S.Absents)

\* "not present" was given for the points of the right eye and became "Pre'sents"
OedemePointsStatusSeen ==
    /\ StatusGiven(K.right_eye, K.points_hyperreflectifs)
    /\ FieldIn(K.right_eye, K.points_hyperreflectifs).v[K.status] = JStr(<<"n","o","t"," ","p","r","e","s","e","n","t">>)
    /\ FieldOut(K.right_eye, K.points_hyperreflectifs).v[K.status] = JStr(S.Presents)

(***************************************************************************)
(* Claims on the image encoder                                             *)
(***************************************************************************)
Analyzed == analyze_result # NotRun /\ contents.t = "str"
AfterFirstComma(text) == SubSeq(text, Find(text, S.Comma) + 1, Len(text))

\* C12: for every data-URL string (a string with a ','), encode_image_contents returns
\* what follows the first ',', unchanged, and raises nothing, so that a run of
\* analyze_image on it goes on to the request.
EncoderSplitsAtFirstComma ==
    (Analyzed /\ Contains(contents.v, S.Comma)) =>
        /\ encode_image_contents(contents.v) = Ok(AfterFirstComma(contents.v))
        /\ raw_response # NotRun

(***************************************************************************)
(* Claims on the portal                                                    *)
(***************************************************************************)
Called(callback) == portal_call # NotRun /\ portal_call.callback = callback
Authenticated(b) == session[b] # JNull

\* the pair verifies against the stored user with that identifiant
Verifies(cred, user_id) ==
    /\ cred[1].t = "str" /\ cred[2].t = "str"
    /\ \E i \in DOMAIN USERS :
           /\ USERS[i].identifiant = user_id
           /\ Lower(USERS[i].identifiant) = Lower(cred[1].v)
           /\ USERS[i].password_hash = generate_password_hash(cred[2].v)

\* display_page returns a dashboard or a patient page to an authenticated session only,
\* and the login layout to every other one
GateOnPages ==
    Called("display_page") =>
        /\ portal_call.result.v.kind \in {"dashboard", "detail", "not_found"} =>
               Authenticated(portal_call.browser)
        /\ ~Authenticated(portal_call.browser) => portal_call.result.v = login_layout

\* a session becomes authenticated only by a process_login call whose pair verifies,
\* and process_logout ends it
GateOnSessions ==
    \A b \in Browsers :
        /\ (session'[b] # session[b] /\ session'[b] # JNull) =>
               /\ portal_call'.callback = "process_login"
               /\ portal_call'.browser = b
               /\ Verifies(portal_call'.args, session'[b].v)
        /\ (portal_call'.callback = "process_logout" /\ portal_call'.browser = b) =>
               session'[b] = JNull

\* C13: over any sequence of login attempts, logouts and page requests, display_page
\* returns the dashboard or a patient page only while the session is authenticated, which
\* it is only from a process_login call whose identifiant and password verified against a
\* stored user until the next process_logout; in every other state it returns the login
\* layout, whatever the pathname.
LoginGate == [](GateOnPages) /\ [][GateOnSessions]_vars

LoginGateSeen ==
    /\ Called("display_page")
    /\ portal_call.args = <<JStr(Path.dashboard)>>
    /\ session[portal_call.browser] = JStr(N.admin)
    /\ portal_call.result.v.kind = "dashboard"

\* a form value that was not filled in
Empty(value) == value \in {JNull, JStr(S.Empty)}

\* nom, prenom or age is empty, or IVT is 'Oui' and nb_injections or molecule is empty
MissingInput(f) ==
    \/ Empty(f[1]) \/ Empty(f[2]) \/ Empty(f[3])
    \/ f[5] = JStr(P.Oui) /\ (Empty(f[7]) \/ Empty(f[8]))

ValidationMessages ==
    {"Veuillez remplir tous les champs obligatoires (nom, prenom, age).",
     "Veuillez indiquer le nombre d'injections et la molecule."}

\* C14: a save_new_patient call with a required input missing returns a validation
\* message in an open alert, leaves every form field and the slider as they are
\* (no_update) and leaves the patient list as it was before the call.
RejectedSaveMutatesNothing ==
    [][(portal_call'.callback = "save_new_patient" /\ MissingInput(portal_call'.args)) =>
          /\ PATIENTS' = PATIENTS
          /\ portal_call'.result.t = "ok"
          /\ portal_call'.result.v[1] \in ValidationMessages
          /\ portal_call'.result.v[2] = TRUE
          /\ \A i \in 4..12 : portal_call'.result.v[i] = NoUpdate]_vars

RejectedSaveSeen ==
    /\ Called("save_new_patient")
    /\ Authenticated(portal_call.browser)
    /\ portal_call.args[5] = JStr(P.Oui) /\ portal_call.args[7] = JNull
    /\ portal_call.result = Ok(Rejected("Veuillez indiquer le nombre d'injections et la molecule.", TRUE))
    /\ PATIENTS = DEFAULT_PATIENTS

\* the identities a patient list may be asked for
Doctors == {JStr(N.Elamri_Ayoub), JStr(N.Nezar), JStr(N.admin), JStr(N.ADMIN), JStr(N.ghost)}

\* the positions in PATIENTS of the patients of doctor d
StoredFor(d) == {i \in DOMAIN PATIENTS : PATIENTS[i].doctor = d}

\* the k-th most recently added of them
KthNewest(d, k) == CHOOSE i \in StoredFor(d) : Cardinality({j \in StoredFor(d) : j > i}) = k - 1

\* exactly the stored patients of doctor d, newest-added first
OwnNewestFirst(d) == [k \in 1..Cardinality(StoredFor(d)) |-> PATIENTS[KthNewest(d, k)]]

ListIsOwnNewestFirst ==
    /\ \A d \in Doctors : get_patients_for_doctor(PATIENTS, d) = OwnNewestFirst(d)
    /\ (Called("display_page") /\ portal_call.result.v.kind = "dashboard") =>
           LET own == OwnNewestFirst(JStr(current_user(portal_call.browser).identifiant))
               slider == portal_call.result.v.slider
           IN  IF own = <<>> THEN slider.kind = "no_patient"
               ELSE slider.kind = "slider" /\ slider.cards = [k \in DOMAIN own |-> Card(own[k])]

SaveStoresCurrentUser ==
    (portal_call'.callback = "save_new_patient" /\ PATIENTS' # PATIENTS) =>
        /\ Authenticated(portal_call'.browser)
        /\ Len(PATIENTS') = Len(PATIENTS) + 1
        /\ SubSeq(PATIENTS', 1, Len(PATIENTS)) = PATIENTS
        /\ PATIENTS'[Len(PATIENTS')].doctor = JStr(current_user(portal_call'.browser).identifiant)
        /\ PATIENTS'[Len(PATIENTS')].nom = portal_call'.args[1]

\* C15: get_patients_for_doctor(d) returns exactly the stored patients whose doctor
\* is d, newest-added first, after any sequence of saves by any users, the dashboard
\* shows that list for the current user, and a patient saved through save_new_patient
\* is stored with doctor equal to the current user's identifiant.
PatientsFilteredByDoctor == [](ListIsOwnNewestFirst) /\ [][SaveStoresCurrentUser]_vars

PatientsFilteredByDoctorSeen ==
    /\ Called("display_page")
    /\ portal_call.result.v.kind = "dashboard"
    /\ Len(PATIENTS) = Len(DEFAULT_PATIENTS) + 2
    /\ PATIENTS[Len(PATIENTS) - 1].doctor = JStr(N.admin)
    /\ PATIENTS[Len(PATIENTS)].doctor = JStr(N.Elamri_Ayoub)
    /\ session[portal_call.browser] = JStr(N.Elamri_Ayoub)
    /\ Len(portal_call.result.v.slider.cards) = 6
    /\ portal_call.result.v.slider.cards[1].patient = PATIENTS[Len(PATIENTS)]

(***************************************************************************)
(* Properties of the report and the plan, checked under SpecReport         *)
(***************************************************************************)
\* a report or plan callback has run on the form values that the analyze_image call
\* just made wrote from its normalised analysis
RebuiltFromAnalysis ==
    /\ narrative_call # NotRun
    /\ analyze_result # NotRun /\ analyze_result.t = "ok"
    /\ analysis # NotRun /\ analysis.t = "ok"

\* the central thickness of a normalised eye
NormalizedCentral(eye_data) ==
    LET thickness == eye_data.v[K.epaisseur_retinienne]
    IN  IF thickness.t = "obj" /\ K.central \in DOMAIN thickness.v THEN thickness.v[K.central]
        ELSE JStr(S.Empty)

\* the rebuilt eye has the central thickness and the dril, oedeme, mle, ze and points
\* values of the normalised eye
SameEye(rebuilt, eye_data) ==
    /\ rebuilt.v[K.epaisseur_retinienne].v[K.central] = NormalizedCentral(eye_data)
    /\ rebuilt.v[K.dril].v[K.status] = eye_data.v[K.dril].v[K.status]
    /\ rebuilt.v[K.oedeme].v[K.status] = eye_data.v[K.oedeme].v[K.status]
    /\ rebuilt.v[K.mle] = eye_data.v[K.mle]
    /\ rebuilt.v[K.ze] = eye_data.v[K.ze]
    /\ rebuilt.v[K.points_hyperreflectifs].v[K.status] = eye_data.v[K.points_hyperreflectifs].v[K.status]

\* C16: the record that report and plan generation rebuild from the form values written
\* by analyze_image has, for each eye, the central thickness of the normalised analysis
\* and its dril, oedeme, mle, ze and points values.
FormRoundTrip ==
    RebuiltFromAnalysis =>
        /\ narrative_call.analysis_data.t = "ok"
        /\ \A eye \in Eyes : SameEye(narrative_call.analysis_data.v.v[eye], analysis.v.v[eye])

\* the part of C16 that does hold: the statuses and the membranes come back as they were
StatusRoundTrip ==
    RebuiltFromAnalysis =>
        /\ narrative_call.analysis_data.t = "ok"
        /\ \A eye \in Eyes :
              LET rebuilt == narrative_call.analysis_data.v.v[eye]
                  eye_data == analysis.v.v[eye]
              IN  /\ rebuilt.v[K.dril].v[K.status] = eye_data.v[K.dril].v[K.status]
                  /\ rebuilt.v[K.oedeme].v[K.status] = eye_data.v[K.oedeme].v[K.status]
                  /\ rebuilt.v[K.mle] = eye_data.v[K.mle]
                  /\ rebuilt.v[K.ze] = eye_data.v[K.ze]
                  /\ rebuilt.v[K.points_hyperreflectifs].v[K.status] = eye_data.v[K.points_hyperreflectifs].v[K.status]

\* generate_report or generate_therapeutic_plan has been called by its callback
NarrativeCalled == narrative_call # NotRun /\ narrative_call.text # NotRun

NoClientMessage ==
    IF narrative_call.callback = "toggle_report_synthesis" THEN M.no_client_report ELSE M.no_client_plan

ErrorMessage ==
    IF narrative_call.callback = "toggle_report_synthesis" THEN M.report_error ELSE M.plan_error

\* C18: generate_report and generate_therapeutic_plan never raise and return their fixed
\* French message, both when no client is configured and when the completion call raises.
NarrativeFailureRecovered ==
    NarrativeCalled =>
        /\ ~client_is_set => narrative_call.text = Ok(JStr(NoClientMessage))
        /\ (client_is_set /\ narrative_call.completion = ServiceRaises) =>
               narrative_call.text = Ok(JStr(ErrorMessage))

NarrativeFailureSeen ==
    /\ NarrativeCalled
    /\ narrative_call.callback = "toggle_report_synthesis"
    /\ client_is_set /\ narrative_call.completion = ServiceRaises
    /\ narrative_call.text = Ok(JStr(M.report_error))
    /\ report.is_open /\ report.children = JArr(<<JStr(M.report_error)>>)
    /\ plan.children = JArr(<<JStr(M.plan_error)>>)

(***************************************************************************)
(* The normaliser and the dict it is given                                 *)
(***************************************************************************)
\* C17: process_gpt_response is pure: the dict the caller passed is the same before and
\* after the call, and a second call on an equal input returns an equal output.
NormalizerIsPure ==
    Normalized =>
        /\ response_after = raw_response
        /\ process_gpt_response(raw_response) = analysis

(***************************************************************************)
(* The fences of the answer                                                *)
(***************************************************************************)
\* what lies between the first occurrence of open in text and the next occurrence of
\* close after it (the rest of the text when there is none)
Between(text, open, close) ==
    LET rest == SubSeq(text, Find(text, open) + Len(open), Len(text))
    IN  IF Find(rest, close) = 0 THEN rest ELSE SubSeq(rest, 1, Find(rest, close) - 1)

\* the part of the answer that is to be parsed
FencedPart(text) ==
    IF Contains(text, S.FenceJson) THEN Between(text, S.FenceJson, S.Fence)
    ELSE IF Contains(text, S.Fence) THEN Between(text, S.Fence, S.Fence)
    ELSE text

\* the text the service answered, as analyze_with_gpt reads it
AnswerText == Strip(Wrap(completion.body, completion.fence))

\* C21: what analyze_with_gpt returns for a text answer is the parse of the content
\* between the first json-tagged fence and the next fence when the text holds a
\* json-tagged fence (even after an earlier untagged block), else of the content between
\* the first two fences when it holds a fence, else of the whole text.
FenceOrder ==
    (Answered /\ raw_response # NotRun) => raw_response = ParseResponse(FencedPart(AnswerText))

\* an untagged block came first and the json-tagged block after it was the one parsed
FenceOrderSeen ==
    /\ Answered /\ raw_response # NotRun
    /\ Find(AnswerText, S.Fence) < Find(AnswerText, S.FenceJson)
    /\ raw_response.t = "obj" /\ K.left_eye \in DOMAIN raw_response.v

(***************************************************************************)
(* The values analyze_image returns, checked under Spec                    *)
(***************************************************************************)
\* analyze_image has returned the values it built from the normalised analysis
ResultsBuilt ==
    /\ analyze_result # NotRun /\ analyze_result.t = "ok"
    /\ analysis # NotRun /\ analysis.t = "ok"

\* the eye of the normalised analysis
EyeOf(eye) == analysis.v.v[eye]

\* the outputs before the seven main outputs of an eye, and the place of an eye in a pair
Base(eye) == IF eye = K.left_eye THEN 0 ELSE 7
Side(eye) == IF eye = K.left_eye THEN 0 ELSE 1

\* dril, oedeme, mle, ze and points of an eye are at their places among its seven outputs
MainInOrder(eye) ==
    /\ analyze_result.v[Base(eye) + 1] = EyeOf(eye).v[K.dril].v[K.status]
    /\ analyze_result.v[Base(eye) + 2] = EyeOf(eye).v[K.oedeme].v[K.status]
    /\ analyze_result.v[Base(eye) + 4] = EyeOf(eye).v[K.mle]
    /\ analyze_result.v[Base(eye) + 5] = EyeOf(eye).v[K.ze]
    /\ analyze_result.v[Base(eye) + 6] = EyeOf(eye).v[K.points_hyperreflectifs].v[K.status]

\* a detail of the oedeme of an eye as it is to be shown: empty unless the status is
\* "Pre'sent", the taille lower-cased
Gated(eye, field) ==
    IF EyeOf(eye).v[K.oedeme].v[K.status] # JStr(S.Present) THEN JStr(S.Empty)
    ELSE IF field = K.taille THEN JStr(Lower(EyeOf(eye).v[K.oedeme].v[field].v))
    ELSE EyeOf(eye).v[K.oedeme].v[field]

\* nb_logette, taille, localisation and EDTRS of an eye are at their places in the pairs
DetailsInOrder(eye) ==
    /\ analyze_result.v[15 + Side(eye)] = Gated(eye, K.nb_logette)
    /\ analyze_result.v[17 + Side(eye)] = Gated(eye, K.taille)
    /\ analyze_result.v[19 + Side(eye)] = Gated(eye, K.localisation)
    /\ analyze_result.v[21 + Side(eye)] = EdtrsValue(EyeOf(eye)).v

\* C22 as stated: the 22 values are in the order of the outputs, each of them, briding
\* and decollement included, taken from the same eye and field of the normalised result.
OutputsFromAnalysis ==
    ResultsBuilt =>
        \A eye \in Eyes :
            /\ MainInOrder(eye) /\ DetailsInOrder(eye)
            /\ analyze_result.v[Base(eye) + 3] = EyeOf(eye).v[K.briding]
            /\ analyze_result.v[Base(eye) + 7] = EyeOf(eye).v[K.decollement]

\* C22: the 22 values are in the order of the outputs with no left/right or field
\* mix-up: dril, oedeme, mle, ze, points, the oedeme details and the EDTRS text are taken
\* from the same eye and field of the normalised result, and briding and decollement
\* are the values of that eye's radio groups given as State.
OutputsInOrder ==
    [][(n_clicks' # n_clicks /\ ResultsBuilt') =>
           \A eye \in Eyes :
               /\ MainInOrder(eye)' /\ DetailsInOrder(eye)'
               /\ analyze_result'.v[Base(eye) + 3] = form[Base(eye) + 3]
               /\ analyze_result'.v[Base(eye) + 7] = form[Base(eye) + 7]]_vars

\* the clinician had selected a left briding, the two eyes of the answer differ, and each
\* is shown on its side
OutputsInOrderSeen ==
    /\ ResultsBuilt
    /\ form[LeftBriding] = JStr(S.Present)
    /\ EyeOf(K.left_eye).v[K.dril].v[K.status] = JStr(S.Presente) /\ form[1] = JStr(S.Presente)
    /\ EyeOf(K.right_eye).v[K.dril].v[K.status] = JStr(S.Absente) /\ form[8] = JStr(S.Absente)
    /\ form[21] # form[22] /\ form[17] = JStr(S.petite) /\ form[18] = JStr(S.Empty)

\* C23: in the values analyze_image returns, nb_logette, taille and localisation of an
\* eye are the empty string when its normalised oedeme status is not "Pre'sent", and the
\* normalised values, the taille lower-cased, when it is.
OedemeDetailsGated ==
    ResultsBuilt =>
        \A eye \in Eyes :
            IF EyeOf(eye).v[K.oedeme].v[K.status] = JStr(S.Present)
            THEN /\ analyze_result.v[15 + Side(eye)] = EyeOf(eye).v[K.oedeme].v[K.nb_logette]
                 /\ analyze_result.v[17 + Side(eye)] = JStr(Lower(EyeOf(eye).v[K.oedeme].v[K.taille].v))
                 /\ analyze_result.v[19 + Side(eye)] = EyeOf(eye).v[K.oedeme].v[K.localisation]
            ELSE \A k \in {15, 17, 19} : analyze_result.v[k + Side(eye)] = JStr(S.Empty)

\* one eye with an oedeme whose details are shown, the other without and with details
\* in the normalised result that are not shown
OedemeDetailsGatedSeen ==
    /\ ResultsBuilt
    /\ EyeOf(K.left_eye).v[K.oedeme].v[K.status] = JStr(S.Present)
    /\ analyze_result.v[15] = JStr(W.n2) /\ analyze_result.v[19] = JStr(W.foveolaire)
    /\ EyeOf(K.right_eye).v[K.oedeme].v[K.status] = JStr(S.Absent)
    /\ EyeOf(K.right_eye).v[K.oedeme].v[K.nb_logette] = JStr(W.n2)
    /\ analyze_result.v[16] = JStr(S.Empty) /\ analyze_result.v[20] = JStr(S.Empty)

(***************************************************************************)
(* Algebraic properties of the normaliser, checked under SpecNormalizer    *)
(***************************************************************************)
\* C24: normalisation is idempotent: for every parsed response on which
\* process_gpt_response returns, applying it to what it returned returns the same again.
NormalizerIdempotent ==
    (Normalized /\ analysis.t = "ok") => process_gpt_response(analysis.v) = analysis

\* a response that normalisation changed ("Small" became "petite", fields were added)
\* and whose result it leaves as it is
NormalizerIdempotentSeen ==
    /\ Normalized /\ analysis.t = "ok"
    /\ TailleGiven(<<"S","m","a","l","l">>)
    /\ TailleOut = S.petite
    /\ analysis.v # raw_response
    /\ process_gpt_response(analysis.v) = analysis

\* an eye record that holds every key of the default eye with values of the closed vocabulary
CanonicalStatus(rec, accepted) ==
    rec.t = "obj" /\ K.status \in DOMAIN rec.v /\ rec.v[K.status] \in {JStr(w) : w \in accepted}

CanonicalTaille(oedeme) ==
    K.taille \in DOMAIN oedeme.v
        => oedeme.v[K.taille] \in {JStr(w) : w \in {S.Empty, S.petite, S.grande, S.volumineuse}}

CanonicalEye(e) ==
    /\ e.t = "obj"
    /\ \A i \in 1..Len(DefaultEyeKeys) : DefaultEyeKeys[i] \in DOMAIN e.v
    /\ CanonicalStatus(e.v[K.dril], {S.Presente, S.Absente})
    /\ CanonicalStatus(e.v[K.oedeme], {S.Present, S.Absent})
    /\ CanonicalTaille(e.v[K.oedeme])
    /\ CanonicalStatus(e.v[K.points_hyperreflectifs], {S.Presents, S.Absents})
    /\ e.v[K.mle] \in {JStr(w) : w \in CanonicalMembranes}
    /\ e.v[K.ze] \in {JStr(w) : w \in CanonicalMembranes}
    /\ e.v[K.epaisseur_retinienne].t = "obj"

CanonicalRecord(r) ==
    /\ r.t = "obj"
    /\ K.error \notin DOMAIN r.v
    /\ \A eye \in Eyes : eye \in DOMAIN r.v /\ CanonicalEye(r.v[eye])

\* C25: a record whose two eyes hold every field with a value of the closed vocabulary
\* is returned unchanged, and the default analysis normalizes to itself.
CanonicalIsFixedPoint ==
    /\ (Normalized /\ CanonicalRecord(raw_response)) => analysis = Ok(raw_response)
    /\ CanonicalRecord(generate_default_analysis)
    /\ process_gpt_response(generate_default_analysis) = Ok(generate_default_analysis)

\* the service answered a complete record that is not the default one (a "volumineuse"
\* oedeme, a "Complètement interrompue" mle, a thickness) and it came back as it was
CanonicalIsFixedPointSeen ==
    /\ Normalized
    /\ Answered
    /\ CanonicalRecord(raw_response)
    /\ raw_response # generate_default_analysis
    /\ raw_response.v[K.left_eye].v[K.mle] = JStr(S.CompletementInterrompue)
    /\ raw_response.v[K.left_eye].v[K.oedeme].v[K.taille] = JStr(S.volumineuse)
    /\ analysis = Ok(raw_response)

(***************************************************************************)
(* Presence and absence, checked under SpecNormalizer                      *)
(***************************************************************************)
\* the status, lower-cased, starts with "present" or with the accented French word
SpellsPresence(w) ==
    \/ StartsWith(Lower(w), S.present)
    \/ StartsWith(Lower(w), <<"p","r","e'","s","e","n","t">>)

AffirmativeOf(field) ==
    IF field = K.dril THEN S.Presente
    ELSE IF field = K.oedeme THEN S.Present
    ELSE S.Presents

\* C26: for dril, oedeme and points_hyperreflectifs, a status that spells presence
\* (lower-cased, it starts with the accented or the unaccented "present") is
\* normalized to that field's affirmative spelling, never to absence.
PresenceKept ==
    \A eye \in Eyes : \A field \in StatusFields :
        (StatusGiven(eye, field) /\ SpellsPresence(FieldIn(eye, field).v[K.status].v))
            => FieldOut(eye, field).v[K.status] = JStr(AffirmativeOf(field))

(***************************************************************************)
(* The patients' records, checked under SpecPortal                         *)
(***************************************************************************)
\* C27: display_page returns the detail layout of a patient for /patient/<id> only
\* when that patient's doctor is the identifiant of the user logged in.
DetailOnlyForOwnDoctor ==
    (Called("display_page") /\ portal_call.result.v.kind = "detail") =>
        /\ Authenticated(portal_call.browser)
        /\ portal_call.result.v.patient.doctor
               = JStr(current_user(portal_call.browser).identifiant)

\* C28: every stored patient is reachable by its identifier: get_patient_by_id of
\* nom + "_" + prenom returns that patient with its own index.
StoredPatientReachable ==
    \A i \in DOMAIN PATIENTS :
        get_patient_by_id(PATIENTS, PatientId(PATIENTS[i]))
            = [index |-> JNum(i - 1), patient |-> PATIENTS[i]]

(***************************************************************************)
(* The two eyes, checked under SpecNormalizer                              *)
(***************************************************************************)
\* the response is an object without an "error" key that holds this eye
EyeHeld(eye) ==
    /\ Normalized
    /\ raw_response.t = "obj"
    /\ K.error \notin DOMAIN raw_response.v
    /\ eye \in DOMAIN raw_response.v

\* process_gpt_response applied to a response that holds this eye and nothing else
EyeAlone(eye) == process_gpt_response(JObj(eye :> raw_response.v[eye]))

\* C29: the two eyes are normalized independently: the normalized value of an eye is
\* what the normaliser makes of that eye alone, whatever the other eye contains, and a
\* malformed value in the other eye neither changes nor prevents it.
EyesIndependent ==
    \A eye \in Eyes :
        (EyeHeld(eye) /\ EyeAlone(eye).t = "ok")
            => analysis.t = "ok" /\ analysis.v.v[eye] = EyeAlone(eye).v.v[eye]

\* whenever the normaliser returns, each eye of the result is what the normaliser makes
\* of that eye alone
EyesIndependentWhenReturned ==
    \A eye \in Eyes :
        (EyeHeld(eye) /\ analysis.t = "ok")
            => EyeAlone(eye).t = "ok" /\ analysis.v.v[eye] = EyeAlone(eye).v.v[eye]

(***************************************************************************)
(* The analysis without a client, checked under Spec                       *)
(***************************************************************************)
\* the upload holds the data URL of an image file, and analyze_image has run on it
ImageAnalyzed == contents = JStr(U_image) /\ analyze_result # NotRun

\* the values the form gets for an eye are the defaults
DefaultsShown(eye) ==
    /\ analyze_result.v[Base(eye) + 1] = JStr(S.Absente)
    /\ analyze_result.v[Base(eye) + 2] = JStr(S.Absent)
    /\ analyze_result.v[Base(eye) + 4] = JStr(S.Continue)
    /\ analyze_result.v[Base(eye) + 5] = JStr(S.Continue)
    /\ analyze_result.v[Base(eye) + 6] = JStr(S.Absents)
    /\ \A k \in {15, 17, 19, 21} : analyze_result.v[k + Side(eye)] = JStr(S.Empty)

\* C30: with no client configured and an image uploaded, analyze_image returns, for
\* both eyes, dril "Absente", oedeme "Absent", mle "Continue", ze "Continue", points
\* "Absents", and the empty string for nb_logette, taille, localisation and EDTRS.
OfflineDefaults ==
    (~client_is_set /\ ImageAnalyzed) =>
        /\ analyze_result.t = "ok"
        /\ \A eye \in Eyes : DefaultsShown(eye)

\* without a client, an image was analyzed after the clinician had selected a radio
\* value: the service was not called and the form holds the defaults
OfflineDefaultsSeen ==
    /\ ~client_is_set /\ ImageAnalyzed
    /\ completion = NotCalled
    /\ raw_response = generate_default_analysis
    /\ form = analyze_result.v
    /\ n_selections > 0
    /\ \A eye \in Eyes : DefaultsShown(eye)

====
